---- MODULE Spec2Model ----
(***************************************************************************)
(* Custom transaction handlers of the Lisk SDK examples: HelloTransaction  *)
(* (hello_world), Cashback (test_dapp) and the Lisk Transport workshop     *)
(* handlers RegisterPacket, StartTransport, FinishTransport and LightAlarm.*)
(* Every handler is a function from a transaction and the staged account   *)
(* store to an outcome: the result of the call ("ok" for an empty error    *)
(* list, "errors" for a non-empty one, "throw" for a raised exception) and *)
(* the store as the call left it.                                          *)
(***************************************************************************)
EXTENDS Integers, Sequences, FiniteSets, TLC

VARIABLES accounts, applied, last, steps, app, call, process

vars == <<accounts, applied, last, steps, app, call, process>>

(***************************************************************************)
(* Bounds of the model.                                                    *)
(***************************************************************************)
\* Largest number of handler calls in one run.
MaxSteps == 5
\* Largest amount, postage or security of a generated transaction (units).
MaxAmount == 2
\* Largest initial hello counter.
MaxHello == 2

(***************************************************************************)
(* JavaScript values.  A value is a record whose only field names its      *)
(* kind, so values of different kinds are unequal and never compared       *)
(* field by field.                                                         *)
(***************************************************************************)
Undefined == [undefined |-> TRUE]
Null == [null |-> TRUE]
Num(n) == [num |-> n]
Str(s) == [str |-> s]
List(q) == [list |-> q]
Obj(m) == [obj |-> m]
\* A function (a class is its constructor function), known by its name.
Class(name) == [class |-> name]
\* A number that is not an integer (9.5, NaN).
Fraction == [fraction |-> TRUE]
Bool(b) == [bool |-> b]

IsObj(v) == "obj" \in DOMAIN v
IsNum(v) == "num" \in DOMAIN v
IsStr(v) == "str" \in DOMAIN v
IsList(v) == "list" \in DOMAIN v
IsClass(v) == "class" \in DOMAIN v
IsBool(v) == "bool" \in DOMAIN v

\* An object literal with no keys: {}.
EmptyMap == [k \in {} |-> Undefined]

\* Reading a property of null or undefined raises a TypeError.
Nullish(v) == v = Undefined \/ v = Null

\* o.k for an object o: undefined when the key is absent.
Prop(o, k) == IF IsObj(o) /\ k \in DOMAIN o.obj THEN o.obj[k] ELSE Undefined

\* {...o, k: v}, and o.k = v on an object.
WithProp(o, k, v) ==
    Obj([x \in (DOMAIN o.obj) \cup {k} |-> IF x = k THEN v ELSE o.obj[x]])

\* JavaScript truthiness (the operand of if, !, ?: and &&).
Truthy(v) ==
    CASE IsNum(v) -> v.num # 0
      [] IsStr(v) -> v.str # ""
      [] IsObj(v) -> TRUE
      [] IsList(v) -> TRUE
      [] IsClass(v) -> TRUE
      [] IsBool(v) -> v.bool
      [] OTHER -> FALSE

(***************************************************************************)
(* Balances.  Cashback adds amount / 2 to a balance, which is half a unit  *)
(* for an odd amount, so a balance is kept as a count of half units.       *)
(***************************************************************************)
Scale == 2
Units(n) == n * Scale

(***************************************************************************)
(* The staged account store.                                               *)
(***************************************************************************)
Account(balance, asset) == [balance |-> balance, asset |-> asset]

\* store.account.get(address) finds an account only under a string address
\* that the store holds; any other argument (null, undefined) makes it fail.
StoreHas(store, addr) == IsStr(addr) /\ addr.str \in DOMAIN store

\* store.account.set(address, account)
StoreSet(store, address, account) == [store EXCEPT ![address] = account]

Ok(store) == [res |-> "ok", store |-> store]
Errors(store) == [res |-> "errors", store |-> store]
Throw(store) == [res |-> "throw", store |-> store]

Tx(type, senderId, recipientId, amount, fee, timestamp, asset) ==
    [type |-> type, senderId |-> senderId, recipientId |-> recipientId,
     amount |-> amount, fee |-> fee, timestamp |-> timestamp, asset |-> asset]

NoTx == Tx("none", "", "", 0, 0, 0, Obj(EmptyMap))

SumBalances(store) ==
    LET RECURSIVE Sum(_)
        Sum(A) == IF A = {} THEN 0
                  ELSE LET a == CHOOSE x \in A : TRUE
                       IN store[a].balance + Sum(A \ {a})
    IN Sum(DOMAIN store)

(***************************************************************************)
(* HelloTransaction (hello_world).  The object literal of line 428 is      *)
(* written { hello = 1 }; it is modelled as the object { hello: 1 }.       *)
(***************************************************************************)
HelloApplyAsset(tx, store) ==
    LET sender == store[tx.senderId]
        hello == Prop(sender.asset, "hello")
        asset == IF Truthy(sender.asset) /\ Truthy(hello)
                 THEN WithProp(sender.asset, "hello", Num(hello.num + 1))
                 ELSE Obj([hello |-> Num(1)])
    IN Ok(StoreSet(store, tx.senderId, [sender EXCEPT !.asset = asset]))

\* A plausible slip: the counter is decremented while it is above 0.
HelloUndoAssetToZero(tx, store) ==
    LET sender == store[tx.senderId]
        hello == Prop(sender.asset, "hello")
        asset == IF IsNum(hello) /\ hello.num > 0
                 THEN WithProp(sender.asset, "hello", Num(hello.num - 1))
                 ELSE Null
    IN IF Nullish(sender.asset)
       THEN Throw(store)
       ELSE Ok(StoreSet(store, tx.senderId, [sender EXCEPT !.asset = asset]))

HelloUndoAsset(tx, store) ==
    LET sender == store[tx.senderId]
        hello == Prop(sender.asset, "hello")
        asset == IF IsNum(hello) /\ hello.num > 1
                 THEN WithProp(sender.asset, "hello", Num(hello.num - 1))
                 ELSE Null
    IN IF Nullish(sender.asset)
       THEN Throw(store)
       ELSE Ok(StoreSet(store, tx.senderId, [sender EXCEPT !.asset = asset]))

(***************************************************************************)
(* TransferTransaction, the base class of Cashback: the balance transfer   *)
(* of the ledger.  The sender pays amount + fee, the recipient receives    *)
(* amount and the fee is burned; a sender that cannot pay is reported and  *)
(* nothing is written.  undoAsset is the inverse.                          *)
(***************************************************************************)
TransferApplyAsset(tx, store) ==
    LET sender == store[tx.senderId]
        recipient == store[tx.recipientId]
        debit == Units(tx.amount + tx.fee)
    IN IF sender.balance >= debit
       THEN Ok(StoreSet(StoreSet(store, tx.senderId,
                                 [sender EXCEPT !.balance = @ - debit]),
                        tx.recipientId,
                        [recipient EXCEPT !.balance = @ + Units(tx.amount)]))
       ELSE Errors(store)

TransferUndoAsset(tx, store) ==
    LET sender == store[tx.senderId]
        recipient == store[tx.recipientId]
    IN Ok(StoreSet(StoreSet(store, tx.senderId,
                            [sender EXCEPT !.balance = @ + Units(tx.amount + tx.fee)]),
                   tx.recipientId,
                   [recipient EXCEPT !.balance = @ - Units(tx.amount)]))

(***************************************************************************)
(* Cashback (test_dapp): the transfer, then amount / 2 added to the        *)
(* sender.  The result of super.applyAsset is dropped and [] is returned.  *)
(* Cashback defines no undoAsset: it inherits the transfer's.              *)
(***************************************************************************)
CashbackBonus(tx) == Units(tx.amount) \div 2

\* A plausible slip: the bonus goes to the recipient instead of the sender.
CashbackApplyAssetBonusToRecipient(tx, store) ==
    LET afterSuper == TransferApplyAsset(tx, store).store
        recipient == afterSuper[tx.recipientId]
    IN Ok(StoreSet(afterSuper, tx.recipientId,
                   [recipient EXCEPT !.balance = @ + CashbackBonus(tx)]))

\* A plausible slip: the bonus is the whole amount.
CashbackApplyAssetFullBonus(tx, store) ==
    LET afterSuper == TransferApplyAsset(tx, store).store
        sender == afterSuper[tx.senderId]
    IN Ok(StoreSet(afterSuper, tx.senderId,
                   [sender EXCEPT !.balance = @ + Units(tx.amount)]))

CashbackApplyAsset(tx, store) ==
    LET afterSuper == TransferApplyAsset(tx, store).store
        sender == afterSuper[tx.senderId]
    IN Ok(StoreSet(afterSuper, tx.senderId,
                   [sender EXCEPT !.balance = @ + CashbackBonus(tx)]))

CashbackUndoAsset(tx, store) == TransferUndoAsset(tx, store)

(***************************************************************************)
(* Lisk Transport.  A packet account's asset holds recipient, sender,      *)
(* security, postage, minTrust, status and carrier once it is registered;  *)
(* postage and security are decimal strings of whole units, modelled by    *)
(* the numbers they denote.                                                *)
(***************************************************************************)
PacketStatus(store, packetId) == Prop(store[packetId].asset, "status")

\* A plausible slip: the updated packet account is stored under the
\* transaction's recipientId, the recipient of the packet.
RegisterPacketApplyAssetToRecipient(tx, store) ==
    LET packetId == Prop(tx.asset, "packetId").str
        postage == Prop(tx.asset, "postage")
        packet == store[packetId]
        sender == store[tx.senderId]
        updatedSender == [sender EXCEPT !.balance = @ - Units(postage.num)]
        afterSender == StoreSet(store, tx.senderId, updatedSender)
        updatedPacketAccount ==
            Account(afterSender[packetId].balance + Units(postage.num),
                    Obj([recipient |-> Str(tx.recipientId),
                         sender |-> Str(tx.senderId),
                         security |-> Prop(tx.asset, "security"),
                         postage |-> postage,
                         minTrust |-> Prop(tx.asset, "minTrust"),
                         status |-> Str("pending"),
                         carrier |-> Null]))
    IN IF Nullish(packet.asset) THEN Throw(store)
       ELSE IF ~Truthy(Prop(packet.asset, "status"))
       THEN Ok(StoreSet(afterSender, tx.recipientId, updatedPacketAccount))
       ELSE Errors(store)

\* A plausible slip: the postage leaves the sender's account before the
\* status of the packet is looked at.
RegisterPacketApplyAssetChargesFirst(tx, store) ==
    LET packetId == Prop(tx.asset, "packetId").str
        postage == Prop(tx.asset, "postage")
        packet == store[packetId]
        sender == store[tx.senderId]
        updatedSender == [sender EXCEPT !.balance = @ - Units(postage.num)]
        afterSender == StoreSet(store, tx.senderId, updatedSender)
        updatedPacketAccount ==
            Account(afterSender[packetId].balance + Units(postage.num),
                    Obj([recipient |-> Str(tx.recipientId),
                         sender |-> Str(tx.senderId),
                         security |-> Prop(tx.asset, "security"),
                         postage |-> postage,
                         minTrust |-> Prop(tx.asset, "minTrust"),
                         status |-> Str("pending"),
                         carrier |-> Null]))
    IN IF Nullish(packet.asset) THEN Throw(store)
       ELSE IF ~Truthy(Prop(packet.asset, "status"))
       THEN Ok(StoreSet(afterSender, packetId, updatedPacketAccount))
       ELSE Errors(afterSender)

RegisterPacketApplyAsset(tx, store) ==
    LET packetId == Prop(tx.asset, "packetId").str
        postage == Prop(tx.asset, "postage")
        packet == store[packetId]
        sender == store[tx.senderId]
        updatedSender == [sender EXCEPT !.balance = @ - Units(postage.num)]
        afterSender == StoreSet(store, tx.senderId, updatedSender)
        updatedPacketAccount ==
            Account(afterSender[packetId].balance + Units(postage.num),
                    Obj([recipient |-> Str(tx.recipientId),
                         sender |-> Str(tx.senderId),
                         security |-> Prop(tx.asset, "security"),
                         postage |-> postage,
                         minTrust |-> Prop(tx.asset, "minTrust"),
                         status |-> Str("pending"),
                         carrier |-> Null]))
    IN IF Nullish(packet.asset) THEN Throw(store)
       ELSE IF ~Truthy(Prop(packet.asset, "status"))
       THEN Ok(StoreSet(afterSender, packetId, updatedPacketAccount))
       ELSE Errors(store)

\* A plausible slip: the packet's asset is reset but the postage stays in
\* the packet's balance.
RegisterPacketUndoAssetKeepsPostage(tx, store) ==
    LET packetId == Prop(tx.asset, "packetId").str
        postage == Prop(tx.asset, "postage")
        sender == store[tx.senderId]
        updatedSender == [sender EXCEPT !.balance = @ + Units(postage.num)]
        afterSender == StoreSet(store, tx.senderId, updatedSender)
        packet == afterSender[packetId]
        originalPacketAccount == [packet EXCEPT !.asset = Null]
    IN Ok(StoreSet(afterSender, packetId, originalPacketAccount))

\* The packet account is put back as the comment of lines 195-197 asks:
\* the original balance, and the asset reset to null.
RegisterPacketUndoAsset(tx, store) ==
    LET packetId == Prop(tx.asset, "packetId").str
        postage == Prop(tx.asset, "postage")
        sender == store[tx.senderId]
        updatedSender == [sender EXCEPT !.balance = @ + Units(postage.num)]
        afterSender == StoreSet(store, tx.senderId, updatedSender)
        packet == afterSender[packetId]
        originalPacketAccount ==
            [packet EXCEPT !.balance = @ - Units(postage.num), !.asset = Null]
    IN Ok(StoreSet(afterSender, packetId, originalPacketAccount))

\* A plausible slip: an absent trust is read as 1.
CarrierTrustAbsentIsOne(carrier) ==
    IF Truthy(Prop(carrier.asset, "trust")) THEN Prop(carrier.asset, "trust").num ELSE 1

\* The carrier's trust as the handlers read it: 0 when absent.
CarrierTrust(carrier) ==
    IF Truthy(Prop(carrier.asset, "trust")) THEN Prop(carrier.asset, "trust").num ELSE 0

\* The updated carrier account left to the reader (lines 306-316, 388-402):
\* the security leaves the balance and is stored as asset.lockedSecurity,
\* and the trust is initialised.
LockedCarrier(carrier, security) ==
    [carrier EXCEPT
        !.balance = @ - Units(security.num),
        !.asset = WithProp(WithProp(@, "trust", Num(CarrierTrust(carrier))),
                           "lockedSecurity", security)]

\* A plausible slip: any registered packet is accepted, not only a pending one.
StartTransportApplyAssetAnyStatus(tx, store) ==
    LET packet == store[tx.recipientId]
        carrier == store[tx.senderId]
        security == Prop(packet.asset, "security")
        minTrust == Prop(packet.asset, "minTrust")
        afterCarrier == StoreSet(store, tx.senderId, LockedCarrier(carrier, security))
        ongoing == WithProp(WithProp(packet.asset, "status", Str("ongoing")),
                            "carrier", Str(tx.senderId))
    IN IF Nullish(packet.asset) THEN Throw(store)
       ELSE IF ~Truthy(Prop(packet.asset, "status")) THEN Errors(store)
       ELSE IF Nullish(carrier.asset) THEN Throw(store)
       ELSE IF minTrust.num <= CarrierTrust(carrier)
                /\ carrier.balance >= Units(security.num)
       THEN Ok(StoreSet(afterCarrier, tx.recipientId,
                        [packet EXCEPT !.asset = ongoing]))
       ELSE Errors(store)

\* A plausible slip: the carrier's balance is not compared with the security.
StartTransportApplyAssetNoBalanceCheck(tx, store) ==
    LET packet == store[tx.recipientId]
        carrier == store[tx.senderId]
        security == Prop(packet.asset, "security")
        minTrust == Prop(packet.asset, "minTrust")
        afterCarrier == StoreSet(store, tx.senderId, LockedCarrier(carrier, security))
        ongoing == WithProp(WithProp(packet.asset, "status", Str("ongoing")),
                            "carrier", Str(tx.senderId))
    IN IF Nullish(packet.asset) THEN Throw(store)
       ELSE IF Prop(packet.asset, "status") # Str("pending") THEN Errors(store)
       ELSE IF Nullish(carrier.asset) THEN Throw(store)
       ELSE IF minTrust.num <= CarrierTrust(carrier)
       THEN Ok(StoreSet(afterCarrier, tx.recipientId,
                        [packet EXCEPT !.asset = ongoing]))
       ELSE Errors(store)

\* A plausible slip: the carrier's trust is not compared with minTrust.
StartTransportApplyAssetNoTrustCheck(tx, store) ==
    LET packet == store[tx.recipientId]
        carrier == store[tx.senderId]
        security == Prop(packet.asset, "security")
        minTrust == Prop(packet.asset, "minTrust")
        afterCarrier == StoreSet(store, tx.senderId, LockedCarrier(carrier, security))
        ongoing == WithProp(WithProp(packet.asset, "status", Str("ongoing")),
                            "carrier", Str(tx.senderId))
    IN IF Nullish(packet.asset) THEN Throw(store)
       ELSE IF Prop(packet.asset, "status") # Str("pending") THEN Errors(store)
       ELSE IF Nullish(carrier.asset) THEN Throw(store)
       ELSE IF carrier.balance >= Units(security.num)
       THEN Ok(StoreSet(afterCarrier, tx.recipientId,
                        [packet EXCEPT !.asset = ongoing]))
       ELSE Errors(store)

StartTransportApplyAsset(tx, store) ==
    LET packet == store[tx.recipientId]
        carrier == store[tx.senderId]
        security == Prop(packet.asset, "security")
        minTrust == Prop(packet.asset, "minTrust")
        afterCarrier == StoreSet(store, tx.senderId, LockedCarrier(carrier, security))
        ongoing == WithProp(WithProp(packet.asset, "status", Str("ongoing")),
                            "carrier", Str(tx.senderId))
    IN IF Nullish(packet.asset) THEN Throw(store)
       ELSE IF Prop(packet.asset, "status") # Str("pending") THEN Errors(store)
       ELSE IF Nullish(carrier.asset) THEN Throw(store)
       ELSE IF minTrust.num <= CarrierTrust(carrier)
                /\ carrier.balance >= Units(security.num)
       THEN Ok(StoreSet(afterCarrier, tx.recipientId,
                        [packet EXCEPT !.asset = ongoing]))
       ELSE Errors(store)

\* Line 355 reads packet.assset (sic): a property of undefined, a TypeError
\* raised before anything is written.
StartTransportUndoAsset(tx, store) == Throw(store)

\* What an account holds beside balance and asset: FinishTransport reads
\* packet.carrier (line 468), a property no handler ever writes.
AccountCarrier(account) == Undefined

\* The successful transport left to the reader (lines 446-450, 483-496):
\* the carrier receives postage and security, the lock is lifted, the trust
\* grows by one; the packet's balance is emptied and its status is success.
FinishSuccess(tx, store) ==
    LET packet == store[tx.recipientId]
        carrierId == Prop(packet.asset, "carrier").str
        carrier == store[carrierId]
        reward == Prop(packet.asset, "security").num + Prop(packet.asset, "postage").num
        updatedCarrier ==
            [carrier EXCEPT
                !.balance = @ + Units(reward),
                !.asset = WithProp(WithProp(@, "trust", Num(CarrierTrust(carrier) + 1)),
                                   "lockedSecurity", Null)]
        afterCarrier == StoreSet(store, carrierId, updatedCarrier)
    IN StoreSet(afterCarrier, tx.recipientId,
                [packet EXCEPT !.balance = 0,
                               !.asset = WithProp(@, "status", Str("success"))])

\* A plausible slip: the trust is set to -1 whatever it was.
FinishFailTrustReset(tx, store) ==
    LET packet == store[tx.recipientId]
        senderId == Prop(packet.asset, "sender").str
        carrierId == Prop(packet.asset, "carrier").str
        refund == Prop(packet.asset, "security").num + Prop(packet.asset, "postage").num
        afterSender == StoreSet(store, senderId,
                                [store[senderId] EXCEPT !.balance = @ + Units(refund)])
        carrier == afterSender[carrierId]
        trust == -1
        afterCarrier ==
            StoreSet(afterSender, carrierId,
                     [carrier EXCEPT
                         !.asset = WithProp(WithProp(@, "trust", Num(trust)),
                                            "lockedSecurity", Null)])
    IN StoreSet(afterCarrier, tx.recipientId,
                [afterCarrier[tx.recipientId] EXCEPT
                    !.balance = 0,
                    !.asset = WithProp(@, "status", Str("fail"))])

FinishFail(tx, store) ==
    LET packet == store[tx.recipientId]
        senderId == Prop(packet.asset, "sender").str
        carrierId == Prop(packet.asset, "carrier").str
        refund == Prop(packet.asset, "security").num + Prop(packet.asset, "postage").num
        afterSender == StoreSet(store, senderId,
                                [store[senderId] EXCEPT !.balance = @ + Units(refund)])
        carrier == afterSender[carrierId]
        trust == IF Truthy(Prop(carrier.asset, "trust"))
                 THEN Prop(carrier.asset, "trust").num - 1 ELSE -1
        afterCarrier ==
            StoreSet(afterSender, carrierId,
                     [carrier EXCEPT
                         !.asset = WithProp(WithProp(@, "trust", Num(trust)),
                                            "lockedSecurity", Null)])
    IN StoreSet(afterCarrier, tx.recipientId,
                [afterCarrier[tx.recipientId] EXCEPT
                    !.balance = 0,
                    !.asset = WithProp(@, "status", Str("fail"))])

\* A plausible slip: the status check of lines 470-480 is missing.
FinishTransportApplyAssetNoStatusCheck(tx, store) ==
    LET packet == store[tx.recipientId]
    IN IF Nullish(packet.asset) THEN Throw(store)
       ELSE IF ~StoreHas(store, Prop(packet.asset, "carrier")) THEN Throw(store)
       ELSE IF ~StoreHas(store, Prop(packet.asset, "sender")) THEN Throw(store)
       ELSE IF Prop(tx.asset, "senderId") # AccountCarrier(packet) THEN Errors(store)
       ELSE IF Prop(tx.asset, "status") = Str("success") THEN Ok(FinishSuccess(tx, store))
       ELSE Ok(FinishFail(tx, store))

FinishTransportApplyAsset(tx, store) ==
    LET packet == store[tx.recipientId]
        status == Prop(packet.asset, "status")
    IN IF Nullish(packet.asset) THEN Throw(store)
       ELSE IF ~StoreHas(store, Prop(packet.asset, "carrier")) THEN Throw(store)
       ELSE IF ~StoreHas(store, Prop(packet.asset, "sender")) THEN Throw(store)
       ELSE IF Prop(tx.asset, "senderId") # AccountCarrier(packet) THEN Errors(store)
       ELSE IF status # Str("ongoing") /\ status # Str("alarm") THEN Errors(store)
       ELSE IF Prop(tx.asset, "status") = Str("success") THEN Ok(FinishSuccess(tx, store))
       ELSE Ok(FinishFail(tx, store))

\* A plausible slip: the status check of Workshop3 was never inserted.
LightAlarmApplyAssetNoStatusCheck(tx, store) ==
    LET packet == store[tx.senderId]
        alarms == IF Truthy(Prop(packet.asset, "alarms"))
                  THEN Prop(packet.asset, "alarms") ELSE Obj(EmptyMap)
        light == IF Truthy(Prop(alarms, "light"))
                 THEN Prop(alarms, "light") ELSE List(<<>>)
        pushed == List(Append(light.list, tx.timestamp))
        asset == WithProp(WithProp(packet.asset, "status", Str("alarm")),
                          "alarms", WithProp(alarms, "light", pushed))
    IN IF Nullish(packet.asset) THEN Throw(store)
       ELSE Ok(StoreSet(store, tx.senderId, [packet EXCEPT !.asset = asset]))

\* applyAsset of Workshop2 with the status check of Workshop3 in front of
\* the changes.
LightAlarmApplyAsset(tx, store) ==
    LET packet == store[tx.senderId]
        status == Prop(packet.asset, "status")
        alarms == IF Truthy(Prop(packet.asset, "alarms"))
                  THEN Prop(packet.asset, "alarms") ELSE Obj(EmptyMap)
        light == IF Truthy(Prop(alarms, "light"))
                 THEN Prop(alarms, "light") ELSE List(<<>>)
        pushed == List(Append(light.list, tx.timestamp))
        asset == WithProp(WithProp(packet.asset, "status", Str("alarm")),
                          "alarms", WithProp(alarms, "light", pushed))
    IN IF Nullish(packet.asset) THEN Throw(store)
       ELSE IF status # Str("ongoing") /\ status # Str("alarm") THEN Errors(store)
       ELSE Ok(StoreSet(store, tx.senderId, [packet EXCEPT !.asset = asset]))

LightAlarmUndoAsset(tx, store) ==
    LET packet == store[tx.senderId]
        light == Prop(Prop(packet.asset, "alarms"), "light")
        popped == List(SubSeq(light.list, 1, Len(light.list) - 1))
        asset == WithProp(WithProp(packet.asset, "status", Null),
                          "alarms", WithProp(Prop(packet.asset, "alarms"), "light", popped))
    IN IF Nullish(packet.asset) \/ ~IsList(light) THEN Throw(store)
       ELSE Ok(StoreSet(store, tx.senderId, [packet EXCEPT !.asset = asset]))

(***************************************************************************)
(* Application (framework/src/controller/application.js): the table of     *)
(* registered transaction classes, kept under the string form of the type  *)
(* (object keys are strings), and the matcher property that                *)
(* registerTransaction defines on a class's prototype.                     *)
(***************************************************************************)
\* Largest transaction type a caller registers.
MaxType == 10

\* The types of the five transactions the constructor registers.
TRANSACTION_TYPES ==
    [SEND |-> 0, SIGNATURE |-> 1, DELEGATE |-> 2, VOTE |-> 3, MULTI |-> 4]

DefaultClasses ==
    {"TransferTransaction", "SecondSignatureTransaction", "DelegateTransaction",
     "VoteTransaction", "MultisignatureTransaction"}

\* The custom transaction classes of the examples.
CustomClasses == {"Cashback", "LightAlarmTransaction"}

\* The configuration test_dapp constructs the application with.
AppConfig ==
    Obj([label |-> Str("my-app"), minVersion |-> Str("0.0.0"),
         version |-> Str("0.0.0"), protocolVersion |-> Str("0.0")])

\* The state of the constructor before its registrations (lines 138-154):
\* no transaction, no matcher, no module, no controller, nothing frozen.
EmptyApplication ==
    [transactions |-> [k \in {} |-> ""],
     matcher |-> [c \in DefaultClasses \cup CustomClasses |-> Undefined],
     modules |-> [k \in {} |-> ""],
     genesisBlock |-> Obj([payloadHash |-> Str("payloadHash")]),
     constants |-> Obj([TRANSACTION_TYPES |-> Str("TRANSACTION_TYPES")]),
     config |-> [app |-> AppConfig,
                 modules |-> [k \in {} |-> Obj(EmptyMap)],
                 initialState |-> Undefined],
     frozen |-> {},
     controller |-> Null,
     loaded |-> Undefined]

\* Number.isInteger(value)
IsInteger(value) == IsNum(value)

\* transactionType.toString(), and the key of transactions[transactionType]
TypeKey(transactionType) == ToString(transactionType.num)

\* this.getTransactions()
GetTransactions(a) == a.transactions

\* this.getTransaction(transactionType)
GetTransaction(a, transactionType) ==
    IF TypeKey(transactionType) \in DOMAIN a.transactions
    THEN Class(a.transactions[TypeKey(transactionType)]) ELSE Undefined

Returned(a) == [res |-> "ok", app |-> a]
Raised(a) == [res |-> "throw", app |-> a]

\* A plausible slip: the assert on an already registered type is missing.
RegisterTransactionNoDuplicateCheck(a, transactionType, Transaction, options) ==
    LET matcher == Prop(options, "matcher")
        name == Transaction.class
        defined == IF Truthy(matcher)
                   THEN [a EXCEPT !.matcher[name] = matcher] ELSE a
        transactions == GetTransactions(defined)
        key == TypeKey(transactionType)
    IN IF ~IsInteger(transactionType) THEN Raised(a)
       ELSE IF ~Truthy(Transaction) THEN Raised(a)
       ELSE IF Truthy(matcher) /\ a.matcher[name] # Undefined THEN Raised(a)
       ELSE Returned([defined EXCEPT !.transactions =
                        [k \in DOMAIN transactions \cup {key} |->
                            IF k = key THEN name ELSE transactions[k]]])

\* A failed assert raises an AssertionError.  Object.defineProperty on a
\* prototype that already has the (non-configurable) matcher property raises
\* a TypeError.
RegisterTransaction(a, transactionType, Transaction, options) ==
    LET matcher == Prop(options, "matcher")
        name == Transaction.class
        defined == IF Truthy(matcher)
                   THEN [a EXCEPT !.matcher[name] = matcher] ELSE a
        transactions == GetTransactions(defined)
        key == TypeKey(transactionType)
    IN IF ~IsInteger(transactionType) THEN Raised(a)
       ELSE IF key \in DOMAIN GetTransactions(a) THEN Raised(a)
       ELSE IF ~Truthy(Transaction) THEN Raised(a)
       ELSE IF Truthy(matcher) /\ a.matcher[name] # Undefined THEN Raised(a)
       ELSE Returned([defined EXCEPT !.transactions =
                        [k \in DOMAIN transactions \cup {key} |->
                            IF k = key THEN name ELSE transactions[k]]])

(***************************************************************************)
(* Modules and their configuration.  A module class is known by its alias; *)
(* the options of a module are an object.  The registeredTransactions      *)
(* option of the chain module is the very object the application keeps its *)
(* transactions in, so it is held as a reference and read when used.       *)
(***************************************************************************)
Module(alias) == [module |-> alias]

\* The object returned by this.getTransactions(), as a value of an option.
TransactionsObject == [ref |-> "transactions"]

\* Object.assign(target, source)
ObjectAssign(target, source) ==
    IF ~IsObj(source) THEN target
    ELSE Obj([k \in DOMAIN target.obj \cup DOMAIN source.obj |->
                IF k \in DOMAIN source.obj THEN source.obj[k] ELSE target.obj[k]])

\* this.getModules()
GetModules(a) == a.modules

\* An assignment to a property of a frozen object raises a TypeError (the
\* file is in strict mode).  Object.freeze is shallow: it covers the
\* properties of the object it is given, not the objects they hold.
CanWrite(a, object) == object \notin a.frozen

\* this.config.modules[alias] || {}
ModuleConfig(a, alias) ==
    IF alias \in DOMAIN a.config.modules THEN a.config.modules[alias] ELSE Obj(EmptyMap)

\* this.config.modules[alias] = options
WithModuleConfig(a, alias, options) ==
    [a EXCEPT !.config.modules =
        [k \in DOMAIN a.config.modules \cup {alias} |->
            IF k = alias THEN options ELSE a.config.modules[k]]]

\* registerModule(moduleKlass, options = {}, alias = undefined)
RegisterModule(a, moduleKlass, options, alias) ==
    LET moduleAlias == IF Truthy(alias) THEN alias.str ELSE moduleKlass.module
        modules == GetModules(a)
    IN IF moduleKlass = Undefined THEN Raised(a)
       ELSE IF ~(IsObj(options) \/ options = Null) THEN Raised(a)
       ELSE IF moduleAlias \in DOMAIN modules THEN Raised(a)
       ELSE IF ~CanWrite(a, "config.modules") THEN Raised(a)
       ELSE Returned([WithModuleConfig(a, moduleAlias,
                         ObjectAssign(ModuleConfig(a, moduleAlias), options))
                        EXCEPT !.modules =
                            [k \in DOMAIN modules \cup {moduleAlias} |->
                                IF k = moduleAlias THEN moduleKlass.module
                                ELSE modules[k]]])

\* overrideModuleOptions(alias, options)
OverrideModuleOptions(a, alias, options) ==
    IF alias \notin DOMAIN GetModules(a) THEN Raised(a)
    ELSE IF ~CanWrite(a, "config.modules") THEN Raised(a)
    ELSE Returned(WithModuleConfig(a, alias,
                    ObjectAssign(ObjectAssign(Obj(EmptyMap), ModuleConfig(a, alias)),
                                 options)))

\* A plausible slip: the chain module is given a copy of the transactions
\* registered so far.
ChainOptionsCopied(a) ==
    Obj([forging |-> Str("forging"),
         registeredTransactions |->
            Obj([k \in DOMAIN a.transactions |-> Class(a.transactions[k])])])

\* The options the constructor registers the chain module with:
\* registeredTransactions is this.getTransactions(), the object itself.
ChainOptions(a) ==
    Obj([forging |-> Str("forging"), registeredTransactions |-> TransactionsObject])

\* The application as the constructor leaves it (lines 153-199): the five
\* default transactions, the chain, network and http_api modules.
NewApplication ==
    LET send == RegisterTransaction(EmptyApplication, Num(TRANSACTION_TYPES.SEND),
                    Class("TransferTransaction"), Obj(EmptyMap)).app
        signature == RegisterTransaction(send, Num(TRANSACTION_TYPES.SIGNATURE),
                    Class("SecondSignatureTransaction"), Obj(EmptyMap)).app
        delegate == RegisterTransaction(signature, Num(TRANSACTION_TYPES.DELEGATE),
                    Class("DelegateTransaction"), Obj(EmptyMap)).app
        vote == RegisterTransaction(delegate, Num(TRANSACTION_TYPES.VOTE),
                    Class("VoteTransaction"), Obj(EmptyMap)).app
        multi == RegisterTransaction(vote, Num(TRANSACTION_TYPES.MULTI),
                    Class("MultisignatureTransaction"), Obj(EmptyMap)).app
        chain == RegisterModule(multi, Module("chain"), ChainOptions(multi), Undefined).app
        network == RegisterModule(chain, Module("network"), Obj(EmptyMap), Undefined).app
        http_api == RegisterModule(network, Module("http_api"), Obj(EmptyMap),
                                   Undefined).app
    IN OverrideModuleOptions(http_api, "http_api",
                             Obj([loadAsChildProcess |-> Bool(TRUE)])).app

\* The latest call on the application: its arguments, its result and the
\* application before it.
Call(op, args, res, pre) == [op |-> op, args |-> args, res |-> res, pre |-> pre]

NoCall == Call("none", <<>>, "ok", Null)

\* The handlers run against the store alone: no application is involved.
NoApplication == Null

(***************************************************************************)
(* run(): the configuration is compiled, the genesis block, the constants  *)
(* and the configuration are frozen, the process hooks are registered and  *)
(* the controller is created and loads the modules with their options.     *)
(***************************************************************************)
\* appConfigToShareWithModules
AppConfigToShareWithModules(a) ==
    Obj([version |-> Prop(a.config.app, "version"),
         minVersion |-> Prop(a.config.app, "minVersion"),
         protocolVersion |-> Prop(a.config.app, "protocolVersion"),
         nethash |-> Prop(a.config.app, "nethash"),
         nonce |-> Prop(a.config.app, "nonce"),
         genesisBlock |-> a.genesisBlock,
         constants |-> a.constants,
         lastCommitId |-> Prop(a.config.app, "lastCommitId"),
         buildVersion |-> Prop(a.config.app, "buildVersion")])

\* The two overrideModuleOptions calls made for one alias.
CompiledModuleConfig(a, alias, childProcessModules) ==
    LET child == OverrideModuleOptions(a, alias,
                    Obj([loadAsChildProcess |-> Bool(alias \in childProcessModules)])).app
    IN OverrideModuleOptions(child, alias, AppConfigToShareWithModules(a)).app.config.modules[alias]

\* _compileAndValidateConfigurations(): nonce is the random string,
\* childProcessModules the aliases of LISK_CHILD_PROCESS_MODULES.  The
\* assignment of config.initialState is the first write to this.config
\* itself.
CompileAndValidateConfigurations(a, nonce, childProcessModules) ==
    LET modules == GetModules(a)
        withApp == [a EXCEPT !.config.app =
                       WithProp(WithProp(a.config.app, "nonce", Str(nonce)),
                                "nethash", Prop(a.genesisBlock, "payloadHash"))]
        overridden ==
            [withApp EXCEPT !.config.modules =
                [alias \in DOMAIN withApp.config.modules |->
                    IF alias \in DOMAIN modules
                    THEN CompiledModuleConfig(withApp, alias, childProcessModules)
                    ELSE withApp.config.modules[alias]]]
        initialState ==
            Obj([version |-> Prop(overridden.config.app, "version"),
                 minVersion |-> Prop(overridden.config.app, "minVersion"),
                 protocolVersion |-> Prop(overridden.config.app, "protocolVersion"),
                 nonce |-> Prop(overridden.config.app, "nonce"),
                 nethash |-> Prop(overridden.config.app, "nethash"),
                 wsPort |-> Prop(ModuleConfig(overridden, "network"), "wsPort"),
                 httpPort |-> Prop(ModuleConfig(overridden, "http_api"), "httpPort")])
    IN IF ~CanWrite(a, "config.app") THEN Raised(a)
       ELSE IF ~CanWrite(a, "config.modules") THEN Raised(withApp)
       ELSE IF ~CanWrite(a, "config") THEN Raised(overridden)
       ELSE Returned([overridden EXCEPT !.config.initialState = initialState])

\* Object.freeze of run(): the three objects themselves, not what they hold.
Freeze(a) == [a EXCEPT !.frozen = a.frozen \cup {"genesisBlock", "constants", "config"}]

\* A value of an option as its reader finds it: the transactions object
\* holds the classes registered so far.
Resolve(a, value) ==
    IF value = TransactionsObject
    THEN Obj([k \in DOMAIN a.transactions |-> Class(a.transactions[k])])
    ELSE value

\* controller.load(this.getModules(), this.config.modules): every module is
\* handed the options of its alias.
Load(a) ==
    [alias \in DOMAIN GetModules(a) |->
        Obj([k \in DOMAIN ModuleConfig(a, alias).obj |->
                Resolve(a, ModuleConfig(a, alias).obj[k])])]

\* run()
Run(a, nonce, childProcessModules) ==
    LET compiled == CompileAndValidateConfigurations(a, nonce, childProcessModules)
        frozen == Freeze(compiled.app)
    IN IF compiled.res = "throw" THEN compiled
       ELSE Returned([frozen EXCEPT !.controller = Class("Controller"),
                                    !.loaded = Load(frozen)])

\* app.genesisBlock[key] = value or app.constants[key] = value, by a caller
\* in strict mode.
AssignProperty(a, object, key, value) ==
    IF ~CanWrite(a, object) THEN Raised(a)
    ELSE Returned(IF object = "genesisBlock"
                  THEN [a EXCEPT !.genesisBlock = WithProp(a.genesisBlock, key, value)]
                  ELSE [a EXCEPT !.constants = WithProp(a.constants, key, value)])

(***************************************************************************)
(* The process: the events that have a listener, the shutdown calls made   *)
(* so far (each awaits controller.cleanup until it is done), the number of *)
(* controller.cleanup invocations and the exit code once the process has   *)
(* exited.                                                                 *)
(***************************************************************************)
NoProcess == [listeners |-> {}, calls |-> <<>>, cleanups |-> 0, exitCode |-> Null]

\* Listeners added with process.on stay; those added with process.once are
\* removed when their event is emitted.
OnEvents == {"uncaughtException", "unhandledRejection"}
OnceEvents == {"SIGTERM", "SIGINT", "cleanup", "exit"}

\* registerProcessHooks(app)
RegisterProcessHooks(p) == [p EXCEPT !.listeners = p.listeners \cup OnEvents \cup OnceEvents]

Exited(p) == p.exitCode # Null

\* The listeners of an event are called; a once listener is removed first.
Emitted(p, event) == [p EXCEPT !.listeners = p.listeners \ ({event} \cap OnceEvents)]

\* errorCode = 0: the default replaces an argument that is undefined.
ErrorCode(code) == IF code = Undefined THEN 0 ELSE code.num

\* shutdown() up to the end of its synchronous part.  With a controller it
\* invokes controller.cleanup and awaits it.  Without one it goes on to
\* process.exit(errorCode), where the exit code is set.
ShutdownStarts(a, p, trigger, code) ==
    IF a.controller # Null
    THEN [p EXCEPT !.cleanups = p.cleanups + 1,
                   !.calls = Append(p.calls,
                                [trigger |-> trigger, errorCode |-> ErrorCode(code),
                                 phase |-> "cleanup"])]
    ELSE [p EXCEPT !.exitCode = IF Exited(p) THEN p.exitCode ELSE Num(ErrorCode(code)),
                   !.calls = Append(p.calls,
                                [trigger |-> trigger, errorCode |-> ErrorCode(code),
                                 phase |-> "exit"])]

\* process.exit(code): the exit code is set and 'exit' is emitted with the
\* code as its only argument, so that the hook (error, code) =>
\* app.shutdown(code, error) calls shutdown(undefined, code).  The process
\* ends when the listeners return: what awaits then is never resumed.
ProcessExit(a, p, code) ==
    LET exiting == [p EXCEPT !.exitCode = Num(code)]
    IN IF "exit" \in p.listeners
       THEN ShutdownStarts(a, Emitted(exiting, "exit"), "exit", Undefined)
       ELSE exiting

\* The rest of shutdown() once controller.cleanup of call i is done:
\* process.exit(errorCode).
ShutdownResumes(a, p, i) ==
    ProcessExit(a, [p EXCEPT !.calls[i].phase = "exit"], p.calls[i].errorCode)

(***************************************************************************)
(* MultisignatureTransaction (lisk-transactions): the check of a           *)
(* multisignature registration against the other transactions of a batch.  *)
(* The other transactions conflict when one of them has the sender public  *)
(* key and the type of this one; any number of conflicts is reported as    *)
(* one error, and the response fails exactly when there is an error.       *)
(***************************************************************************)
BatchTransaction(type, senderPublicKey) ==
    [type |-> type, senderPublicKey |-> senderPublicKey]

Response(errors) ==
    [status |-> IF Len(errors) > 0 THEN "FAIL" ELSE "OK", errors |-> errors]

\* A plausible slip: the sender of the other transaction is not compared.
VerifyAgainstOtherTransactionsAnySender(this, transactions) ==
    LET sameTypeTransactions ==
            SelectSeq(transactions, LAMBDA tx : tx.type = this.type)
    IN Response(IF Len(sameTypeTransactions) > 0
                THEN <<"Register multisignature only allowed once per account.">>
                ELSE <<>>)

VerifyAgainstOtherTransactions(this, transactions) ==
    LET sameTypeTransactions ==
            SelectSeq(transactions,
                      LAMBDA tx : /\ tx.senderPublicKey = this.senderPublicKey
                                  /\ tx.type = this.type)
    IN Response(IF Len(sameTypeTransactions) > 0
                THEN <<"Register multisignature only allowed once per account.">>
                ELSE <<>>)

(***************************************************************************)
(* validateAsset of HelloTransaction and of Cashback.  A transaction under *)
(* validation has its type, amount, recipientId, recipientPublicKey and    *)
(* asset; the outcome is the list of errors, or a raised exception.        *)
(* A text (asset.data) is known by the numbers of its one-byte and of its  *)
(* three-byte characters.                                                  *)
(***************************************************************************)
Text(ascii, wide) == [text |-> [ascii |-> ascii, wide |-> wide]]
IsText(v) == "text" \in DOMAIN v
\* data.length and Buffer.from(data, 'utf8').length
Length(t) == t.text.ascii + t.text.wide
ByteLength(t) == t.text.ascii + 3 * t.text.wide

Validated(errors) == [res |-> IF errors = <<>> THEN "ok" ELSE "errors", errors |-> errors]
ValidationRaised == [res |-> "throw", errors |-> <<>>]

\* The transaction as its constructor holds it: the asset payload is
\* structured data, the empty object when none was given.
BaseTransaction(type, amount, recipientId, recipientPublicKey, asset) ==
    [type |-> type, amount |-> amount, recipientId |-> recipientId,
     recipientPublicKey |-> recipientPublicKey,
     asset |-> IF Truthy(asset) THEN asset ELSE Obj(EmptyMap)]

\* new TransactionError(message, id, dataPath, actual, expected)
TransactionError(message, dataPath) == [message |-> message, dataPath |-> dataPath]

\* A plausible slip: only the presence of asset.hello is tested.
HelloValidateAssetAnyTruthy(tx) ==
    LET hello == Prop(tx.asset, "hello")
    IN IF Nullish(tx.asset) THEN ValidationRaised
       ELSE Validated(IF ~Truthy(hello)
                      THEN <<TransactionError("Invalid \"asset.hello\" defined on transaction",
                                              ".asset.hello")>>
                      ELSE <<>>)

HelloValidateAsset(tx) ==
    LET hello == Prop(tx.asset, "hello")
    IN IF Nullish(tx.asset) THEN ValidationRaised
       ELSE Validated(IF ~Truthy(hello) \/ hello # Num(1)
                      THEN <<TransactionError("Invalid \"asset.hello\" defined on transaction",
                                              ".asset.hello")>>
                      ELSE <<>>)

ENDORSE_TRANSACTION_TYPE == 9

\* maxLength of asset.data in assetFormatSchema
MaxDataLength == 64

\* utils.validator.validate(assetFormatSchema, asset): whether the asset is
\* an object whose data, when present, is a string of at most 64 characters
\* in the transferData format (at most 64 bytes).
ValidateAssetFormat(asset) ==
    /\ IsObj(asset)
    /\ Prop(asset, "data") # Undefined =>
          /\ IsText(Prop(asset, "data"))
          /\ Length(Prop(asset, "data")) <= MaxDataLength
          /\ ByteLength(Prop(asset, "data")) <= MaxDataLength

\* utils.validateTransferAmount: a positive amount.
ValidateTransferAmount(amount) == amount > 0

\* Addresses and public keys of the accounts of the examples.
ValidAddresses == {"S", "R"}

\* utils.validateAddress throws for an address that is not well formed.
ValidateAddressThrows(address) == address \notin ValidAddresses

\* cryptography.getAddressFromPublicKey
GetAddressFromPublicKey(publicKey) ==
    CASE publicKey = Str("keyS") -> "S"
      [] publicKey = Str("keyR") -> "R"

\* A plausible slip: utils.validateAddress is called outside a try block.
CashbackValidateAssetNoTry(tx) ==
    LET formatValid == ValidateAssetFormat(tx.asset)  \* computed, never read
        typeErrors == IF tx.type # ENDORSE_TRANSACTION_TYPE
                      THEN <<TransactionError("Invalid type", ".type")>> ELSE <<>>
        amountErrors == IF ~ValidateTransferAmount(tx.amount)
                        THEN <<TransactionError("Amount must be a valid number in string format.",
                                                ".amount")>>
                        ELSE <<>>
        missingErrors == IF tx.recipientId = ""
                         THEN <<TransactionError("recipientId must be provided.",
                                                 ".recipientId")>>
                         ELSE <<>>
        keyErrors == IF /\ Truthy(tx.recipientPublicKey)
                        /\ tx.recipientId # GetAddressFromPublicKey(tx.recipientPublicKey)
                     THEN <<TransactionError("recipientId does not match recipientPublicKey.",
                                             ".recipientId")>>
                     ELSE <<>>
    IN IF ValidateAddressThrows(tx.recipientId) THEN ValidationRaised
       ELSE Validated(typeErrors \o amountErrors \o missingErrors \o keyErrors)

\* The result of utils.validator.validate (line 40) is not used.
CashbackValidateAsset(tx) ==
    LET formatValid == ValidateAssetFormat(tx.asset)  \* computed, never read
        typeErrors == IF tx.type # ENDORSE_TRANSACTION_TYPE
                      THEN <<TransactionError("Invalid type", ".type")>> ELSE <<>>
        amountErrors == IF ~ValidateTransferAmount(tx.amount)
                        THEN <<TransactionError("Amount must be a valid number in string format.",
                                                ".amount")>>
                        ELSE <<>>
        missingErrors == IF tx.recipientId = ""
                         THEN <<TransactionError("recipientId must be provided.",
                                                 ".recipientId")>>
                         ELSE <<>>
        addressErrors == IF ValidateAddressThrows(tx.recipientId)
                         THEN <<TransactionError("validateAddress: error.message",
                                                 ".recipientId")>>
                         ELSE <<>>
        keyErrors == IF /\ Truthy(tx.recipientPublicKey)
                        /\ tx.recipientId # GetAddressFromPublicKey(tx.recipientPublicKey)
                     THEN <<TransactionError("recipientId does not match recipientPublicKey.",
                                             ".recipientId")>>
                     ELSE <<>>
    IN Validated(typeErrors \o amountErrors \o missingErrors
                 \o addressErrors \o keyErrors)

(***************************************************************************)
(* prepare: the selectors each handler hands to store.account.cache, and   *)
(* the addresses its applyAsset and undoAsset hand to store.account.get.   *)
(* Addresses are values: a string, or the null or undefined that a packet  *)
(* without carrier holds.                                                  *)
(***************************************************************************)
Cached(selectors) == [res |-> "ok", cached |-> selectors]
PrepareRaised(selectors) == [res |-> "throw", cached |-> selectors]

HelloPrepare(tx, store) == Cached({Str(tx.senderId)})

RegisterPacketPrepare(tx, store) ==
    Cached({Prop(tx.asset, "packetId"), Str(tx.senderId)})

StartTransportPrepare(tx, store) == Cached({Str(tx.recipientId), Str(tx.senderId)})

FinishTransportPrepare(tx, store) ==
    LET pckt == store[tx.recipientId]
    IN IF Nullish(pckt.asset) THEN PrepareRaised({Str(tx.recipientId)})
       ELSE Cached({Str(tx.recipientId),
                    Prop(pckt.asset, "carrier"), Prop(pckt.asset, "sender")})

LightAlarmPrepare(tx, store) == Cached({Str(tx.senderId)})

HelloGets(tx, store) == {Str(tx.senderId)}

RegisterPacketApplyGets(tx, store) ==
    LET packet == store[Prop(tx.asset, "packetId").str]
    IN {Prop(tx.asset, "packetId")}
       \cup IF ~Nullish(packet.asset) /\ ~Truthy(Prop(packet.asset, "status"))
            THEN {Str(tx.senderId)} ELSE {}

RegisterPacketUndoGets(tx, store) == {Str(tx.senderId), Prop(tx.asset, "packetId")}

StartTransportApplyGets(tx, store) ==
    LET packet == store[tx.recipientId]
    IN {Str(tx.recipientId)}
       \cup IF ~Nullish(packet.asset) /\ Prop(packet.asset, "status") = Str("pending")
            THEN {Str(tx.senderId)} ELSE {}

StartTransportUndoGets(tx, store) == {Str(tx.recipientId), Str(tx.senderId)}

FinishTransportApplyGets(tx, store) ==
    LET packet == store[tx.recipientId]
    IN {Str(tx.recipientId)}
       \cup IF Nullish(packet.asset) THEN {}
            ELSE {Prop(packet.asset, "carrier")}
                 \cup IF StoreHas(store, Prop(packet.asset, "carrier"))
                      THEN {Prop(packet.asset, "sender")} ELSE {}

LightAlarmGets(tx, store) == {Str(tx.senderId)}

(***************************************************************************)
(* The handler of a transaction, by its type.                              *)
(***************************************************************************)
Prepare(tx, store) ==
    CASE tx.type = "Hello" -> HelloPrepare(tx, store)
      [] tx.type = "RegisterPacket" -> RegisterPacketPrepare(tx, store)
      [] tx.type = "StartTransport" -> StartTransportPrepare(tx, store)
      [] tx.type = "FinishTransport" -> FinishTransportPrepare(tx, store)
      [] tx.type = "LightAlarm" -> LightAlarmPrepare(tx, store)

ApplyAsset(tx, store) ==
    CASE tx.type = "Hello" -> HelloApplyAsset(tx, store)
      [] tx.type = "RegisterPacket" -> RegisterPacketApplyAsset(tx, store)
      [] tx.type = "StartTransport" -> StartTransportApplyAsset(tx, store)
      [] tx.type = "FinishTransport" -> FinishTransportApplyAsset(tx, store)
      [] tx.type = "LightAlarm" -> LightAlarmApplyAsset(tx, store)

UndoAsset(tx, store) ==
    CASE tx.type = "Hello" -> HelloUndoAsset(tx, store)
      [] tx.type = "RegisterPacket" -> RegisterPacketUndoAsset(tx, store)
      [] tx.type = "StartTransport" -> StartTransportUndoAsset(tx, store)
      [] tx.type = "LightAlarm" -> LightAlarmUndoAsset(tx, store)

ApplyGets(tx, store) ==
    CASE tx.type = "Hello" -> HelloGets(tx, store)
      [] tx.type = "RegisterPacket" -> RegisterPacketApplyGets(tx, store)
      [] tx.type = "StartTransport" -> StartTransportApplyGets(tx, store)
      [] tx.type = "FinishTransport" -> FinishTransportApplyGets(tx, store)
      [] tx.type = "LightAlarm" -> LightAlarmGets(tx, store)

UndoGets(tx, store) ==
    CASE tx.type = "Hello" -> HelloGets(tx, store)
      [] tx.type = "RegisterPacket" -> RegisterPacketUndoGets(tx, store)
      [] tx.type = "StartTransport" -> StartTransportUndoGets(tx, store)
      [] tx.type = "LightAlarm" -> LightAlarmGets(tx, store)

(***************************************************************************)
(* The processor and its staged account store.  prepare runs for every     *)
(* transaction of the batch against the committed store; cache fails when  *)
(* a selector matches no account.  The handlers then run one after the     *)
(* other on the overlay, which holds the accounts they get, change and     *)
(* set; get fails for an address no cache call of the batch has named.     *)
(* The overlay is committed when every handler returned no error and       *)
(* discarded otherwise.                                                    *)
(***************************************************************************)
Prepared(batch, base) == [i \in DOMAIN batch |-> Prepare(batch[i], base)]

PrepareFails(prepared, base) ==
    \E i \in DOMAIN prepared :
        \/ prepared[i].res # "ok"
        \/ \E address \in prepared[i].cached : ~StoreHas(base, address)

AllCached(prepared) == UNION {prepared[i].cached : i \in DOMAIN prepared}

\* What a run of handlers leaves: the result, the overlay, and for every
\* handler that ran its type, the addresses it got and those its prepare
\* named.
Staged(res, overlay, reads) == [res |-> res, overlay |-> overlay, reads |-> reads]

Read(type, gets, cached) == [type |-> type, gets |-> gets, cached |-> cached]

RECURSIVE ApplyFrom(_, _, _, _)
ApplyFrom(batch, i, overlay, prepared) ==
    IF i > Len(batch) THEN Staged("ok", overlay, <<>>)
    ELSE LET tx == batch[i]
             gets == ApplyGets(tx, overlay)
             read == Read(tx.type, gets, prepared[i].cached)
             out == IF gets \subseteq AllCached(prepared)
                    THEN ApplyAsset(tx, overlay) ELSE Throw(overlay)
         IN IF out.res = "ok"
            THEN [ApplyFrom(batch, i + 1, out.store, prepared)
                     EXCEPT !.reads = <<read>> \o @]
            ELSE Staged(out.res, out.store, <<read>>)

RECURSIVE UndoFrom(_, _, _, _)
UndoFrom(batch, i, overlay, prepared) ==
    IF i < 1 THEN Staged("ok", overlay, <<>>)
    ELSE LET tx == batch[i]
             gets == UndoGets(tx, overlay)
             read == Read(tx.type, gets, prepared[i].cached)
             out == IF gets \subseteq AllCached(prepared)
                    THEN UndoAsset(tx, overlay) ELSE Throw(overlay)
         IN IF out.res = "ok"
            THEN [UndoFrom(batch, i - 1, out.store, prepared)
                     EXCEPT !.reads = <<read>> \o @]
            ELSE Staged(out.res, out.store, <<read>>)

Processed(staged, base) ==
    [res |-> staged.res, overlay |-> staged.overlay, reads |-> staged.reads,
     store |-> IF staged.res = "ok" THEN staged.overlay ELSE base]

\* A plausible slip: the overlay is committed as far as the handlers got.
ProcessCommitsApplied(batch, base) ==
    LET prepared == Prepared(batch, base)
        staged == ApplyFrom(batch, 1, base, prepared)
    IN IF PrepareFails(prepared, base)
       THEN Processed(Staged("prepare", base, <<>>), base)
       ELSE [Processed(staged, base) EXCEPT !.store = staged.overlay]

Process(batch, base) ==
    LET prepared == Prepared(batch, base)
    IN IF PrepareFails(prepared, base)
       THEN Processed(Staged("prepare", base, <<>>), base)
       ELSE Processed(ApplyFrom(batch, 1, base, prepared), base)

Undo(batch, base) ==
    LET prepared == Prepared(batch, base)
    IN IF PrepareFails(prepared, base)
       THEN Processed(Staged("prepare", base, <<>>), base)
       ELSE Processed(UndoFrom(batch, Len(batch), base, prepared), base)

(***************************************************************************)
(* Steps.  An apply that returns no error is pushed on the stack of        *)
(* applied transactions with the store it started from; an undo takes the  *)
(* transaction on top of the stack (last applied, first undone).  last     *)
(* records the latest call: the handler, the transaction, the result, the  *)
(* store before the call (pre), for an undo the store before the matching  *)
(* apply (orig), whether the undo directly follows that apply, and how     *)
(* many transactions of this type and sender have been undone in a row,    *)
(* this one included (run).                                                *)
(***************************************************************************)
Applied(tx, pre) == [tx |-> tx, pre |-> pre]

Top == applied[Len(applied)]

ApplyStep(tx, out) ==
    /\ steps < MaxSteps
    /\ steps' = steps + 1
    /\ accounts' = out.store
    /\ applied' = IF out.res = "ok" THEN Append(applied, Applied(tx, accounts))
                  ELSE applied
    /\ last' = [op |-> "apply", tx |-> tx, res |-> out.res,
                pre |-> accounts, orig |-> accounts, direct |-> FALSE, run |-> 0]
    /\ UNCHANGED <<app, call, process>>

UndoStep(out) ==
    /\ steps < MaxSteps
    /\ steps' = steps + 1
    /\ accounts' = out.store
    /\ applied' = IF out.res = "ok" THEN SubSeq(applied, 1, Len(applied) - 1)
                  ELSE applied
    /\ last' = [op |-> "undo", tx |-> Top.tx, res |-> out.res,
                pre |-> accounts, orig |-> Top.pre,
                direct |-> (last.op = "apply" /\ last.res = "ok"),
                run |-> IF out.res # "ok" THEN 0
                        ELSE IF /\ last.op = "undo"
                                /\ last.tx.type = Top.tx.type
                                /\ last.tx.senderId = Top.tx.senderId
                             THEN last.run + 1
                             ELSE 1]
    /\ UNCHANGED <<app, call, process>>

TopIs(type) == applied # <<>> /\ Top.tx.type = type

NoLast(store) ==
    [op |-> "init", tx |-> NoTx, res |-> "ok",
     pre |-> store, orig |-> store, direct |-> FALSE, run |-> 0]

(***************************************************************************)
(* hello_world: Hello transactions of two senders.                         *)
(***************************************************************************)
HelloSenders == {"S", "C"}

\* The sender states before the first Hello: no asset (null), an empty asset
\* map, an asset with another key, a counter, a counter beside another key.
HelloAssets ==
    {Null, Obj(EmptyMap), Obj([trust |-> Num(1)])}
    \cup {Obj([hello |-> Num(n)]) : n \in 1..MaxHello}
    \cup {Obj([hello |-> Num(n), trust |-> Num(1)]) : n \in 1..MaxHello}

InitHello ==
    /\ accounts \in [HelloSenders -> {Account(Units(1), a) : a \in HelloAssets}]
    /\ applied = <<>>
    /\ last = NoLast(accounts)
    /\ steps = 0
    /\ app = NoApplication
    /\ call = NoCall
    /\ process = NoProcess

ApplyHello ==
    \E s \in HelloSenders :
        LET tx == Tx("Hello", s, "", 0, 0, 0, Obj([hello |-> Num(1)]))
        IN ApplyStep(tx, HelloApplyAsset(tx, accounts))

UndoHello ==
    /\ TopIs("Hello")
    /\ UndoStep(HelloUndoAsset(Top.tx, accounts))

NextHello == ApplyHello \/ UndoHello

SpecHello == InitHello /\ [][NextHello]_vars

(***************************************************************************)
(* test_dapp: Cashback transactions from account S to account R.           *)
(***************************************************************************)
InitCashback ==
    /\ accounts \in [{"S", "R"} -> {Account(Units(b), Obj(EmptyMap)) : b \in 0..MaxAmount + 1}]
    /\ applied = <<>>
    /\ last = NoLast(accounts)
    /\ steps = 0
    /\ app = NoApplication
    /\ call = NoCall
    /\ process = NoProcess

ApplyCashback ==
    \E amount \in 1..MaxAmount, fee \in 0..1 :
        LET tx == Tx("Cashback", "S", "R", amount, fee, 0, Obj(EmptyMap))
        IN ApplyStep(tx, CashbackApplyAsset(tx, accounts))

UndoCashback ==
    /\ TopIs("Cashback")
    /\ UndoStep(CashbackUndoAsset(Top.tx, accounts))

NextCashback == ApplyCashback \/ UndoCashback

SpecCashback == InitCashback /\ [][NextCashback]_vars

(***************************************************************************)
(* Lisk Transport: sender S registers packet P for recipient R, carrier C  *)
(* transports it.  The carrier starts without a trust or with the trust 1  *)
(* of an earlier delivery.                                                 *)
(***************************************************************************)
InitTransport ==
    /\ \E s \in {1, MaxAmount}, c \in {1, MaxAmount}, p \in 0..1, trusted \in BOOLEAN :
          accounts = [a \in {"S", "C", "R", "P"} |->
                         Account(Units(CASE a = "S" -> s [] a = "C" -> c
                                         [] a = "P" -> p [] OTHER -> 0),
                                 IF a = "C" /\ trusted
                                 THEN Obj([trust |-> Num(1)]) ELSE Obj(EmptyMap))]
    /\ applied = <<>>
    /\ last = NoLast(accounts)
    /\ steps = 0
    /\ app = NoApplication
    /\ call = NoCall
    /\ process = NoProcess

ApplyRegisterPacket ==
    \E postage \in 1..MaxAmount, security \in 1..MaxAmount, minTrust \in 0..1 :
        LET tx == Tx("RegisterPacket", "S", "R", 0, 0, 0,
                     Obj([packetId |-> Str("P"), postage |-> Num(postage),
                          security |-> Num(security), minTrust |-> Num(minTrust)]))
        IN ApplyStep(tx, RegisterPacketApplyAsset(tx, accounts))

UndoRegisterPacket ==
    /\ TopIs("RegisterPacket")
    /\ UndoStep(RegisterPacketUndoAsset(Top.tx, accounts))

ApplyStartTransport ==
    LET tx == Tx("StartTransport", "C", "P", 0, 0, 0, Obj(EmptyMap))
    IN ApplyStep(tx, StartTransportApplyAsset(tx, accounts))

UndoStartTransport ==
    /\ TopIs("StartTransport")
    /\ UndoStep(StartTransportUndoAsset(Top.tx, accounts))

\* The recipient, or the carrier in its place, states the outcome; the
\* recipient's asset may carry its id as senderId.
ApplyFinishTransport ==
    \E sender \in {"R", "C"}, status \in {"success", "fail"} :
      \E signed \in {FALSE, sender = "R"} :
        LET asset == IF signed
                     THEN Obj([status |-> Str(status), senderId |-> Str(sender)])
                     ELSE Obj([status |-> Str(status)])
            tx == Tx("FinishTransport", sender, "P", 0, 0, 0, asset)
        IN ApplyStep(tx, FinishTransportApplyAsset(tx, accounts))

ApplyLightAlarm ==
    \E timestamp \in 1..2 :
        LET tx == Tx("LightAlarm", "P", "", 0, 0, timestamp, Obj(EmptyMap))
        IN ApplyStep(tx, LightAlarmApplyAsset(tx, accounts))

UndoLightAlarm ==
    /\ TopIs("LightAlarm")
    /\ UndoStep(LightAlarmUndoAsset(Top.tx, accounts))

Next ==
    \/ ApplyRegisterPacket
    \/ UndoRegisterPacket
    \/ ApplyStartTransport
    \/ UndoStartTransport
    \/ ApplyFinishTransport
    \/ ApplyLightAlarm
    \/ UndoLightAlarm

Spec == InitTransport /\ [][Next]_vars

\* The same transport for a carrier that is under way with another packet,
\* for which it has locked a security of 1.
InitBusyCarrier ==
    /\ \E s \in {1, MaxAmount}, c \in {1, MaxAmount}, p \in 0..1 :
          accounts = [a \in {"S", "C", "R", "P"} |->
                         Account(Units(CASE a = "S" -> s [] a = "C" -> c
                                         [] a = "P" -> p [] OTHER -> 0),
                                 IF a = "C"
                                 THEN Obj([trust |-> Num(0), lockedSecurity |-> Num(1)])
                                 ELSE Obj(EmptyMap))]
    /\ applied = <<>>
    /\ last = NoLast(accounts)
    /\ steps = 0
    /\ app = NoApplication
    /\ call = NoCall
    /\ process = NoProcess

SpecBusyCarrier == InitBusyCarrier /\ [][Next]_vars

\* The same ledger with Cashback transfers from S to R beside the transport,
\* for a carrier that has no trust yet.
InitLedger == InitTransport /\ Prop(accounts["C"].asset, "trust") = Undefined

NextLedger == Next \/ ApplyCashback \/ UndoCashback

SpecLedger == InitLedger /\ [][NextLedger]_vars

(***************************************************************************)
(* The application between its construction and run(): transactions are    *)
(* registered as test_dapp does (a type and a class, with or without       *)
(* options) and as the transport workshop does (a class alone).            *)
(***************************************************************************)
CustomTypes == 9..MaxType

\* First arguments: the default types, custom types, and values that are
\* not integers.
TypeArguments ==
    {Num(n) : n \in 0..TRANSACTION_TYPES.MULTI} \cup {Num(n) : n \in CustomTypes}
    \cup {Fraction, Str("9")}

TransactionArguments ==
    {Class(c) : c \in CustomClasses \cup {"TransferTransaction"}} \cup {Undefined}

OptionsArguments == {Obj(EmptyMap), Obj([matcher |-> Class("matcher")])}

ApplicationCall(budget, op, args, out) ==
    /\ steps < budget
    /\ steps' = steps + 1
    /\ app' = out.app
    /\ call' = Call(op, args, out.res, app)
    /\ UNCHANGED <<accounts, applied, last>>

ApplicationStep(op, args, out) ==
    /\ ApplicationCall(MaxSteps, op, args, out)
    /\ UNCHANGED process

InitApplication ==
    /\ accounts = [a \in {} |-> Account(0, Null)]
    /\ applied = <<>>
    /\ last = NoLast(accounts)
    /\ steps = 0
    /\ app = NewApplication
    /\ call = NoCall
    /\ process = NoProcess

\* app.registerTransaction(transactionType, Transaction, options)
RegisterTransactionCall ==
    \E transactionType \in TypeArguments, Transaction \in TransactionArguments,
       options \in OptionsArguments :
        ApplicationStep("registerTransaction", <<transactionType, Transaction, options>>,
                        RegisterTransaction(app, transactionType, Transaction, options))

\* app.registerTransaction(Transaction): the class is the first argument,
\* the second is undefined and the options default to {}.
RegisterTransactionClassOnly ==
    \E c \in CustomClasses :
        ApplicationStep("registerTransaction", <<Class(c), Undefined, Obj(EmptyMap)>>,
                        RegisterTransaction(app, Class(c), Undefined, Obj(EmptyMap)))

NextApplication == RegisterTransactionCall \/ RegisterTransactionClassOnly

SpecApplication == InitApplication /\ [][NextApplication]_vars

(***************************************************************************)
(* The application from its construction through run(): transactions are   *)
(* registered as test_dapp does, modules are registered and their options  *)
(* overridden, properties of the genesis block and of the constants are    *)
(* assigned, and run() is called, each before or after the others.         *)
(***************************************************************************)
\* Largest number of calls on the application in one run.
MaxCalls == 4

LifecycleStep(op, args, out) ==
    /\ ApplicationCall(MaxCalls, op, args, out)
    /\ UNCHANGED process

\* Values of randomstring.generate(16).
Nonces == {"nonce1", "nonce2"}

\* Values of LISK_CHILD_PROCESS_MODULES.
ChildProcessModules == {{}, {"http_api"}}

ModuleArguments == {Module("chain"), Module("custom"), Undefined}

ModuleOptions == {Obj(EmptyMap), Obj([loadAsChildProcess |-> Bool(TRUE)])}

\* app.registerTransaction(type, Transaction) with a custom type
RegisterCustomTransaction ==
    \E transactionType \in CustomTypes, c \in CustomClasses :
        LifecycleStep("registerTransaction",
                        <<Num(transactionType), Class(c), Obj(EmptyMap)>>,
                        RegisterTransaction(app, Num(transactionType), Class(c),
                                            Obj(EmptyMap)))

\* app.registerModule(moduleKlass, options)
RegisterModuleCall ==
    \E moduleKlass \in ModuleArguments, options \in ModuleOptions \cup {Str("options")} :
        LifecycleStep("registerModule", <<moduleKlass, options>>,
                        RegisterModule(app, moduleKlass, options, Undefined))

\* app.overrideModuleOptions(alias, options)
OverrideModuleOptionsCall ==
    \E alias \in {"chain", "custom"}, options \in ModuleOptions :
        LifecycleStep("overrideModuleOptions", <<alias, options>>,
                        OverrideModuleOptions(app, alias, options))

\* app.genesisBlock.payloadHash = ..., app.constants.TRANSACTION_TYPES = ...
AssignPropertyCall ==
    \E object \in {"genesisBlock", "constants"} :
        LET key == IF object = "genesisBlock" THEN "payloadHash" ELSE "TRANSACTION_TYPES"
        IN LifecycleStep("assign", <<object, key>>,
                           AssignProperty(app, object, key, Str("changed")))

\* app.run(): the hooks are registered when the configuration compiled.
RunCall ==
    \E nonce \in Nonces, childProcessModules \in ChildProcessModules :
        LET out == Run(app, nonce, childProcessModules)
        IN /\ ApplicationCall(MaxCalls, "run", <<nonce, childProcessModules>>, out)
           /\ process' = IF out.res = "ok" THEN RegisterProcessHooks(process)
                          ELSE process

NextLifecycle ==
    \/ RegisterCustomTransaction
    \/ RegisterModuleCall
    \/ OverrideModuleOptionsCall
    \/ AssignPropertyCall
    \/ RunCall

SpecLifecycle == InitApplication /\ [][NextLifecycle]_vars

(***************************************************************************)
(* The termination of the process.  After run() a signal, an uncaught      *)
(* exception, an unhandled rejection or the 'cleanup' event calls          *)
(* shutdown through its hook, and shutdown is called directly; each call   *)
(* awaits controller.cleanup, and the first whose cleanup is done exits    *)
(* the process.  Nothing runs once the process has exited.                 *)
(***************************************************************************)
\* Largest number of shutdown triggers in one run.
MaxTriggers == 3

\* Error codes passed to shutdown and to the 'cleanup' event.
ErrorCodes == {Undefined, Num(0), Num(2)}

Triggered(trigger, code) ==
    /\ ~Exited(process)
    /\ Len(process.calls) < MaxTriggers
    /\ process' = ShutdownStarts(app, Emitted(process, trigger), trigger, code)
    /\ UNCHANGED <<accounts, applied, last, steps, app, call>>

\* process.once('SIGTERM' | 'SIGINT', () => app.shutdown(1))
Signal ==
    \E event \in {"SIGTERM", "SIGINT"} :
        event \in process.listeners /\ Triggered(event, Num(1))

\* process.on('uncaughtException' | 'unhandledRejection',
\*            err => app.shutdown(1, err.message))
Exception ==
    \E event \in OnEvents :
        event \in process.listeners /\ Triggered(event, Num(1))

\* process.once('cleanup', (error, code) => app.shutdown(code, error))
CleanupEvent ==
    \E code \in ErrorCodes :
        "cleanup" \in process.listeners /\ Triggered("cleanup", code)

\* app.shutdown(errorCode)
ShutdownCall == \E code \in ErrorCodes : Triggered("shutdown", code)

\* controller.cleanup of one of the awaiting calls is done and the call
\* goes on to process.exit.
CleanupDone ==
    \E i \in 1..Len(process.calls) :
        /\ ~Exited(process)
        /\ process.calls[i].phase = "cleanup"
        /\ process' = ShutdownResumes(app, process, i)
        /\ UNCHANGED <<accounts, applied, last, steps, app, call>>

\* app.run() as test_dapp calls it, once.
RunOnce == steps = 0 /\ ~Exited(process) /\ RunCall

NextShutdown ==
    \/ RunOnce
    \/ Signal
    \/ Exception
    \/ CleanupEvent
    \/ ShutdownCall
    \/ CleanupDone

SpecShutdown == InitApplication /\ [][NextShutdown]_vars

\* The event loop resumes a call whose controller.cleanup is done.
SpecTermination == SpecShutdown /\ WF_vars(CleanupDone)

(***************************************************************************)
(* The logger component.  A log function takes a message and optional      *)
(* data; data that is an object goes through snipFragileData and           *)
(* JSON.stringify.  A written line is the sequence of its pieces: symbol,  *)
(* timestamp, message and the tokens of the data.                          *)
(***************************************************************************)
Levels ==
    [none |-> 99, trace |-> 0, debug |-> 1, log |-> 2, info |-> 3, warn |-> 4,
     error |-> 5, fatal |-> 6]

LevelAbbr ==
    [trace |-> "trc", debug |-> "dbg", log |-> "log", info |-> "inf", warn |-> "WRN",
     error |-> "ERR", fatal |-> "FTL"]

\* new Logger(config)
Logger(config) ==
    [levels |-> Levels,
     level_abbr |-> LevelAbbr,
     errorLevel |-> IF Truthy(Prop(config, "errorLevel"))
                    THEN Prop(config, "errorLevel").str ELSE "log",
     echo |-> Prop(config, "echo")]

\* The keys of the logged objects, in the order they were inserted.
DataKeys == <<"passphrase", "defaultPassword", "forging">>

\* key.search(/passphrase|password/i) > -1: the key contains one of the two
\* words, in any case.
KeySearch(key) == key \in {"passphrase", "defaultPassword"}

\* snipFragileData(data): the keys of data itself are inspected.
SnipFragileData(data) ==
    Obj([key \in DOMAIN data.obj |->
            IF KeySearch(key) THEN Str("XXXXXXXXXX") ELSE data.obj[key]])

\* JSON.stringify(value): the tokens of the text, keys and values in order;
\* a property that is undefined is left out.
RECURSIVE JSONStringify(_)
RECURSIVE Members(_, _)
Members(value, i) ==
    IF i > Len(DataKeys) THEN <<>>
    ELSE (IF DataKeys[i] \in DOMAIN value.obj /\ value.obj[DataKeys[i]] # Undefined
          THEN <<DataKeys[i]>> \o JSONStringify(value.obj[DataKeys[i]])
          ELSE <<>>) \o Members(value, i + 1)

JSONStringify(value) ==
    IF IsObj(value) THEN <<"{">> \o Members(value, 1) \o <<"}">>
    ELSE IF IsStr(value) THEN <<value.str>>
    ELSE <<>>

\* logs[name](message, data): what is written to the log file, what is
\* echoed to the console and the data object as the call leaves it.
Log(logger, name, message, data) ==
    LET isObject == Truthy(data) /\ IsObj(data)
        snipped == IF isObject THEN SnipFragileData(data) ELSE data
        text == IF isObject THEN JSONStringify(snipped)
                ELSE IF Truthy(data) THEN <<data.str>> ELSE <<>>
        symbol == IF name \in DOMAIN logger.level_abbr
                  THEN logger.level_abbr[name] ELSE "???"
        line == <<symbol, "timestamp", message>> \o text
    IN [file |-> IF logger.levels[logger.errorLevel] <= logger.levels[name]
                 THEN line ELSE <<>>,
        console |-> IF /\ Truthy(logger.echo)
                       /\ logger.levels[logger.echo.str] <= logger.levels[name]
                    THEN line ELSE <<>>,
        data |-> snipped]

\* Largest nesting depth of a logged object.
MaxDepth == 2

\* Largest number of log calls in one run: a call depends on no earlier one.
MaxLogs == 1

\* A secret is stored under the keys that name one, and only there.
Leaf(key) == IF KeySearch(key) THEN Str("secret") ELSE Str("open")

Subsets(q) == SUBSET {q[i] : i \in 1..Len(q)}

\* The objects of a nesting depth up to d: every key is absent, holds a
\* string or holds an object of a depth up to d - 1.
RECURSIVE DataOfDepth(_)
DataOfDepth(d) ==
    LET inner == IF d > 1 THEN DataOfDepth(d - 1) ELSE {}
    IN UNION {{Obj([key \in keys |-> IF f[key] = Null THEN Leaf(key) ELSE f[key]]) :
                  f \in [keys -> {Null} \cup inner]} : keys \in Subsets(DataKeys)}

LoggerConfigs ==
    {Obj(EmptyMap), Obj([errorLevel |-> Str("error")]), Obj([echo |-> Str("info")]),
     Obj([errorLevel |-> Str("error"), echo |-> Str("trace")])}

\* logger.trace|info|error(message, data) on a logger of some configuration
LogCall ==
    \E config \in LoggerConfigs, name \in {"trace", "info", "error"},
       data \in DataOfDepth(MaxDepth) \cup {Undefined, Str("text")} :
        /\ steps < MaxLogs
        /\ steps' = steps + 1
        /\ call' = Call(name, <<data>>, Log(Logger(config), name, "message", data),
                        Logger(config))
        /\ UNCHANGED <<accounts, applied, last, app, process>>

NextLogger == LogCall

SpecLogger == InitApplication /\ [][NextLogger]_vars

(***************************************************************************)
(* Batches: a multisignature registration is verified against the other    *)
(* transactions of its batch, transfers (type 0) and multisignature        *)
(* registrations (type 4) of two senders.                                  *)
(***************************************************************************)
\* Largest number of other transactions in a batch.
MaxBatch == 3

SenderPublicKeys == {"keyA", "keyB"}

OtherTransactions ==
    {BatchTransaction(type, key) :
        type \in {TRANSACTION_TYPES.SEND, TRANSACTION_TYPES.MULTI},
        key \in SenderPublicKeys}

Batches == UNION {[1..n -> OtherTransactions] : n \in 0..MaxBatch}

VerifyCall ==
    \E key \in SenderPublicKeys, transactions \in Batches :
        LET this == BatchTransaction(TRANSACTION_TYPES.MULTI, key)
        IN /\ steps < MaxSteps
           /\ steps' = steps + 1
           /\ call' = Call("verifyAgainstOtherTransactions", <<this, transactions>>,
                           VerifyAgainstOtherTransactions(this, transactions), app)
           /\ UNCHANGED <<accounts, applied, last, app, process>>

NextVerifier == VerifyCall

SpecVerifier == InitApplication /\ [][NextVerifier]_vars

(***************************************************************************)
(* Validation: transactions of every shape are handed to validateAsset of  *)
(* HelloTransaction and of Cashback.                                       *)
(***************************************************************************)
\* Asset payloads of a Hello transaction: none, empty, the counter 1, other
\* numbers, a string, a payload that is not an object.
HelloPayloads ==
    {Undefined, Null, Obj(EmptyMap), Str("hello")}
    \cup {Obj([hello |-> Num(n)]) : n \in 0..MaxHello}
    \cup {Obj([hello |-> Str("1")])}

\* Asset payloads of a Cashback: none, empty, data of 64 and 65 one-byte
\* characters, data of 22 three-byte characters, data that is a number, a
\* payload that is not an object.
CashbackPayloads ==
    {Undefined, Obj(EmptyMap), Str("data"),
     Obj([data |-> Text(0, 0)]),
     Obj([data |-> Text(MaxDataLength, 0)]),
     Obj([data |-> Text(MaxDataLength + 1, 0)]),
     Obj([data |-> Text(0, 22)]),
     Obj([data |-> Num(1)])}

ValidateStep(class, tx, out) ==
    /\ steps < MaxSteps
    /\ steps' = steps + 1
    /\ call' = Call("validateAsset", <<class, tx>>, out, app)
    /\ UNCHANGED <<accounts, applied, last, app, process>>

ValidateHello ==
    \E payload \in HelloPayloads :
        LET tx == BaseTransaction(10, 0, "", Undefined, payload)
        IN ValidateStep("HelloTransaction", tx, HelloValidateAsset(tx))

ValidateCashback ==
    \E type \in {TRANSACTION_TYPES.SEND, ENDORSE_TRANSACTION_TYPE},
       amount \in 0..MaxAmount,
       recipientId \in ValidAddresses \cup {"", "malformed"},
       recipientPublicKey \in {Undefined, Str("keyS"), Str("keyR")},
       payload \in CashbackPayloads :
        LET tx == BaseTransaction(type, amount, recipientId, recipientPublicKey, payload)
        IN ValidateStep("Cashback", tx, CashbackValidateAsset(tx))

NextValidate == ValidateHello \/ ValidateCashback

SpecValidate == InitApplication /\ [][NextValidate]_vars

(***************************************************************************)
(* Batches: the processor applies batches of Hello and transport           *)
(* transactions to the committed store and undoes the batch it committed   *)
(* last.                                                                   *)
(***************************************************************************)
\* Longest batch.
MaxBatchLength == 2

BatchTransactions ==
    {Tx("Hello", "S", "", 0, 0, 0, Obj([hello |-> Num(1)])),
     Tx("RegisterPacket", "S", "R", 0, 0, 0,
        Obj([packetId |-> Str("P"), postage |-> Num(1),
             security |-> Num(1), minTrust |-> Num(0)])),
     Tx("StartTransport", "C", "P", 0, 0, 0, Obj(EmptyMap)),
     Tx("LightAlarm", "P", "", 0, 0, 1, Obj(EmptyMap)),
     Tx("FinishTransport", "R", "P", 0, 0, 0, Obj([status |-> Str("success")])),
     Tx("FinishTransport", "R", "P", 0, 0, 0, Obj([status |-> Str("fail")]))}

ProcessorBatches == UNION {[1..n -> BatchTransactions] : n \in 1..MaxBatchLength}

InitBatch ==
    /\ accounts = [a \in {"S", "C", "R", "P"} |->
                      Account(Units(IF a \in {"S", "C"} THEN MaxAmount ELSE 0),
                              Obj(EmptyMap))]
    /\ applied = <<>>
    /\ last = NoLast(accounts)
    /\ steps = 0
    /\ app = NoApplication
    /\ call = NoCall
    /\ process = NoProcess

ProcessWithin(budget) ==
    \E batch \in ProcessorBatches :
        LET out == Process(batch, accounts)
        IN /\ steps < budget
           /\ steps' = steps + 1
           /\ accounts' = out.store
           /\ applied' = IF out.res = "ok" THEN <<Applied(batch, accounts)>> ELSE applied
           /\ call' = Call("process", <<Len(batch)>>, out, accounts)
           /\ UNCHANGED <<last, app, process>>

\* The batch committed last is rolled back; FinishTransport has no undoAsset.
UndoBatch ==
    /\ applied # <<>>
    /\ \A i \in DOMAIN Top.tx : Top.tx[i].type # "FinishTransport"
    /\ LET out == Undo(Top.tx, accounts)
       IN /\ steps < MaxSteps
          /\ steps' = steps + 1
          /\ accounts' = out.store
          /\ applied' = IF out.res = "ok" THEN <<>> ELSE applied
          /\ call' = Call("undo", <<Len(Top.tx)>>, out, accounts)
          /\ UNCHANGED <<last, app, process>>

ProcessBatch == ProcessWithin(MaxSteps)

NextBatch == ProcessBatch \/ UndoBatch

SpecBatch == InitBatch /\ [][NextBatch]_vars

\* Batches processed one after the other, none rolled back.
MaxBatches == 2

NextProcess == ProcessWithin(MaxBatches)

SpecProcess == InitBatch /\ [][NextProcess]_vars

(***************************************************************************)
(* Properties.                                                             *)
(***************************************************************************)
WasApply(type) == last.op = "apply" /\ last.tx.type = type
WasUndo(type) == last.op = "undo" /\ last.tx.type = type

\* The undo that directly follows the successful apply of the same transaction.
UndoneAtOnce(type) == WasUndo(type) /\ last.res = "ok" /\ last.direct

Balances(store) == [a \in DOMAIN store |-> store[a].balance]
NonNegative(store) == \A a \in DOMAIN store : store[a].balance >= 0

TransportTypes == {"RegisterPacket", "StartTransport", "LightAlarm", "FinishTransport"}

\* The packet's place in the status machine.
StatusOf(store) ==
    LET status == PacketStatus(store, "P")
    IN IF IsStr(status) /\ status.str # "" THEN status.str ELSE "unregistered"

\* C1: HelloTransaction.applyAsset followed by undoAsset of the same
\* transaction leaves the sender account as it was before the apply.
C1_HelloUndoInvertsApply ==
    UndoneAtOnce("Hello") =>
        accounts[last.tx.senderId] = last.orig[last.tx.senderId]

\* C2: applying a Cashback transaction and then undoing it restores the
\* balances of the sender and of the recipient.
C2_CashbackUndoRestoresBalances ==
    UndoneAtOnce("Cashback") =>
        /\ accounts[last.tx.senderId].balance = last.orig[last.tx.senderId].balance
        /\ accounts[last.tx.recipientId].balance = last.orig[last.tx.recipientId].balance

\* The fee the transfer under a Cashback burned: none when the sender could
\* not pay amount + fee and the transfer was refused.
Funded(tx, store) == store[tx.senderId].balance >= Units(tx.amount + tx.fee)
FeeBurned(tx, store) == IF Funded(tx, store) THEN Units(tx.fee) ELSE 0

SecurityOf(store) == Units(Prop(store["P"].asset, "security").num)

\* C6: StartTransport.applyAsset on a pending packet whose security exceeds
\* the carrier's balance returns errors and writes no account; it succeeds
\* only when the carrier's balance is at least the security.
C6_StartTransportNeedsSecurity ==
    (WasApply("StartTransport") /\ StatusOf(last.pre) = "pending") =>
        /\ last.pre[last.tx.senderId].balance < SecurityOf(last.pre) =>
              (last.res = "errors" /\ accounts = last.pre)
        /\ last.res = "ok" =>
              last.pre[last.tx.senderId].balance >= SecurityOf(last.pre)

C6_Witness ==
    /\ WasApply("StartTransport")
    /\ StatusOf(last.pre) = "pending"
    /\ last.pre[last.tx.senderId].balance < SecurityOf(last.pre)
    /\ last.res = "errors"
    /\ accounts = last.pre

\* C7: from a state in which every balance is non-negative, a successfully
\* applied RegisterPacket, StartTransport, FinishTransport or Cashback leaves
\* every balance non-negative.
C7_BalancesStayNonNegative ==
    (/\ last.op = "apply"
     /\ last.res = "ok"
     /\ last.tx.type \in {"RegisterPacket", "StartTransport", "FinishTransport", "Cashback"}
     /\ NonNegative(last.pre)) => NonNegative(accounts)

\* The status machine of a packet, per handler.
SourceStates(type) ==
    CASE type = "RegisterPacket" -> {"unregistered"}
      [] type = "StartTransport" -> {"pending"}
      [] type = "LightAlarm" -> {"ongoing", "alarm"}
      [] type = "FinishTransport" -> {"ongoing", "alarm"}

TargetStates(type) ==
    CASE type = "RegisterPacket" -> {"pending"}
      [] type = "StartTransport" -> {"ongoing"}
      [] type = "LightAlarm" -> {"alarm"}
      [] type = "FinishTransport" -> {"success", "fail"}

\* C8: an applied transport transaction moves the packet's status only along
\* unregistered -> pending (RegisterPacket), pending -> ongoing
\* (StartTransport), ongoing|alarm -> alarm (LightAlarm) and ongoing|alarm ->
\* success|fail (FinishTransport); applied from any other status the handler
\* returns errors and the status stays.
C8_StatusMachine ==
    (last.op = "apply" /\ last.tx.type \in TransportTypes) =>
        /\ StatusOf(accounts) # StatusOf(last.pre) =>
              /\ StatusOf(last.pre) \in SourceStates(last.tx.type)
              /\ StatusOf(accounts) \in TargetStates(last.tx.type)
        /\ StatusOf(last.pre) \notin SourceStates(last.tx.type) =>
              /\ last.res = "errors"
              /\ StatusOf(accounts) = StatusOf(last.pre)

\* C9: once the packet's status is 'success' or 'fail', no applyAsset of
\* RegisterPacket, StartTransport, LightAlarm or FinishTransport changes the
\* status or any balance.
C9_TerminalStatus ==
    (/\ last.op = "apply"
     /\ last.tx.type \in TransportTypes
     /\ StatusOf(last.pre) \in {"success", "fail"}) =>
        /\ StatusOf(accounts) = StatusOf(last.pre)
        /\ Balances(accounts) = Balances(last.pre)

C9_Witness ==
    /\ last.op = "apply"
    /\ last.tx.type = "FinishTransport"
    /\ Prop(last.tx.asset, "senderId") = Undefined
    /\ StatusOf(last.pre) = "fail"
    /\ StatusOf(accounts) = "fail"

\* A StartTransport is among the applied transactions, no FinishTransport after it.
InTransit ==
    \E i \in 1..Len(applied) :
        /\ applied[i].tx.type = "StartTransport"
        /\ \A j \in i + 1..Len(applied) : applied[j].tx.type # "FinishTransport"

LightAlarms(store) == Prop(Prop(store["P"].asset, "alarms"), "light")

PacketTerms(store) ==
    [k \in {"recipient", "sender", "security", "postage", "minTrust"} |->
        Prop(store["P"].asset, k)]

\* C11: StartTransport.undoAsset called right after the successful
\* applyAsset of the same transaction restores the state before the apply:
\* the carrier's balance grows by the packet's security, the carrier's
\* locked amount is removed, the packet is 'pending' with carrier null and
\* its recipient, sender, security, postage and minTrust are unchanged.
C11_StartTransportUndoInvertsApply ==
    (WasUndo("StartTransport") /\ last.direct) =>
        /\ last.res = "ok"
        /\ accounts[last.tx.senderId].balance =
             last.pre[last.tx.senderId].balance + SecurityOf(last.orig)
        /\ accounts[last.tx.senderId].balance = last.orig[last.tx.senderId].balance
        /\ Nullish(Prop(accounts[last.tx.senderId].asset, "lockedSecurity"))
        /\ StatusOf(accounts) = "pending"
        /\ Prop(accounts["P"].asset, "carrier") = Null
        /\ PacketTerms(accounts) = PacketTerms(last.orig)

\* alarms.light as a sequence: empty when the packet has no such list yet.
LightList(store) ==
    IF IsList(LightAlarms(store)) THEN LightAlarms(store).list ELSE <<>>

\* C12: LightAlarm.undoAsset called right after the applyAsset of the same
\* transaction restores the packet account: its status is the one it had
\* before the alarm ('ongoing' or 'alarm') and alarms.light is the list it
\* was before the timestamp was appended.
C12_LightAlarmUndoInvertsApply ==
    UndoneAtOnce("LightAlarm") =>
        /\ StatusOf(accounts) = StatusOf(last.orig)
        /\ LightList(accounts) = LightList(last.orig)

UndoneInReverse(type) == WasUndo(type) /\ last.res = "ok" /\ last.run >= 2

\* C14: several Hello transactions of one sender, or several LightAlarm
\* transactions of one packet, applied in order and undone in reverse order
\* leave the account as it was before the first of them was applied: every
\* undo in the reverse run puts the account back to what it was before the
\* apply of its own transaction.
C14_ReverseUndoRestores ==
    (UndoneInReverse("Hello") \/ UndoneInReverse("LightAlarm")) =>
        accounts[last.tx.senderId] = last.orig[last.tx.senderId]

WasRegisterTransaction == call.op = "registerTransaction"

\* The type is an integer that the table already holds.
Registered(a, transactionType) ==
    IsInteger(transactionType) /\ TypeKey(transactionType) \in DOMAIN GetTransactions(a)

\* C15: registerTransaction with a type that is already registered, the
\* five types of the constructor included, fails and leaves the application
\* as it was; after any sequence of calls every type registered before a
\* call still has the class it had, and the five default types have the
\* classes the constructor gave them.
C15_RegisterTransactionOnce ==
    /\ WasRegisterTransaction =>
          /\ Registered(call.pre, call.args[1]) =>
                (call.res = "throw" /\ app = call.pre)
          /\ \A k \in DOMAIN GetTransactions(call.pre) :
                /\ k \in DOMAIN GetTransactions(app)
                /\ GetTransactions(app)[k] = GetTransactions(call.pre)[k]
    /\ \A k \in DOMAIN GetTransactions(NewApplication) :
          /\ k \in DOMAIN GetTransactions(app)
          /\ GetTransactions(app)[k] = GetTransactions(NewApplication)[k]

C15_Witness ==
    /\ WasRegisterTransaction
    /\ call.args[1] = Num(9)
    /\ Registered(call.pre, call.args[1])
    /\ call.args[2] # Undefined
    /\ call.args[2] # GetTransaction(app, Num(9))
    /\ call.res = "throw"
    /\ app = call.pre

\* C16: registerTransaction called with a custom transaction class as its
\* only argument registers the class: the call returns and the table then
\* holds the class under some type.
C16_RegisterTransactionByClass ==
    (WasRegisterTransaction /\ IsClass(call.args[1])) =>
        /\ call.res = "ok"
        /\ \E k \in DOMAIN GetTransactions(app) :
              GetTransactions(app)[k] = call.args[1].class

WasVerify == call.op = "verifyAgainstOtherTransactions"

\* The other transactions that have the sender public key and the type of
\* the verified one.
Conflicts(this, transactions) ==
    {i \in 1..Len(transactions) :
        /\ transactions[i].senderPublicKey = this.senderPublicKey
        /\ transactions[i].type = this.type}

\* C17: verifyAgainstOtherTransactions of a multisignature registration
\* returns status FAIL with exactly one error when another transaction has
\* its type (4) and its sender public key, and status OK with no error when
\* no other transaction has both.
C17_VerifyAgainstOtherTransactions ==
    WasVerify =>
        IF Conflicts(call.args[1], call.args[2]) # {}
        THEN call.res.status = "FAIL" /\ Len(call.res.errors) = 1
        ELSE call.res.status = "OK" /\ Len(call.res.errors) = 0

C17_Witness ==
    /\ WasVerify
    /\ Cardinality(Conflicts(call.args[1], call.args[2])) = 2
    /\ \E i \in 1..Len(call.args[2]) :
          /\ call.args[2][i].type = call.args[1].type
          /\ call.args[2][i].senderPublicKey # call.args[1].senderPublicKey
    /\ call.res.status = "FAIL"
    /\ Len(call.res.errors) = 1

\* The recipient the registered packet names.
RecipientOf(store) == Prop(store["P"].asset, "recipient")

\* C18: FinishTransport.applyAsset is accepted only when the sender of the
\* transaction is the recipient recorded in the packet account; from any
\* other sender, on a packet that has its carrier, it returns errors and
\* changes no account.
C18_FinishTransportByRecipient ==
    WasApply("FinishTransport") =>
        /\ last.res = "ok" => Str(last.tx.senderId) = RecipientOf(last.pre)
        /\ (/\ StoreHas(last.pre, Prop(last.pre["P"].asset, "carrier"))
            /\ Str(last.tx.senderId) # RecipientOf(last.pre)) =>
              (last.res = "errors" /\ accounts = last.pre)

\* The check of line 468 lets the transaction pass.
PassesSignerCheck(tx, store) ==
    Prop(tx.asset, "senderId") = AccountCarrier(store[tx.recipientId])

MinTrustOf(store) == Prop(store["P"].asset, "minTrust").num

\* C20: StartTransport.applyAsset on a pending packet is accepted only if
\* the carrier's trust (0 when it has none) is at least the packet's
\* minTrust; for a carrier with a lower trust it returns errors, the packet
\* stays 'pending' without a carrier and nothing is locked: no account
\* changes.
C20_StartTransportNeedsTrust ==
    (WasApply("StartTransport") /\ StatusOf(last.pre) = "pending") =>
        /\ last.res = "ok" =>
              CarrierTrust(last.pre[last.tx.senderId]) >= MinTrustOf(last.pre)
        /\ CarrierTrust(last.pre[last.tx.senderId]) < MinTrustOf(last.pre) =>
              /\ last.res = "errors"
              /\ StatusOf(accounts) = "pending"
              /\ Prop(accounts["P"].asset, "carrier") = Null
              /\ accounts[last.tx.senderId].balance = last.pre[last.tx.senderId].balance
              /\ Prop(accounts[last.tx.senderId].asset, "lockedSecurity") =
                   Prop(last.pre[last.tx.senderId].asset, "lockedSecurity")
              /\ accounts = last.pre

C20_Witness ==
    /\ WasApply("StartTransport")
    /\ StatusOf(last.pre) = "pending"
    /\ MinTrustOf(last.pre) = 1
    /\ CarrierTrust(last.pre[last.tx.senderId]) = 0
    /\ last.pre[last.tx.senderId].balance >= SecurityOf(last.pre)
    /\ last.res = "errors"
    /\ accounts = last.pre

TrustOf(store) == Prop(store["C"].asset, "trust")

WasValidate(class) == call.op = "validateAsset" /\ call.args[1] = class

\* An error of the list names the problem.
Reports(message) ==
    \E i \in 1..Len(call.res.errors) : call.res.errors[i].message = message

C23_HandlersNeverRaise ==
    (last.op \in {"apply", "undo"} /\ last.tx.type \in TransportTypes) => last.res # "throw"

\* C26: an applyAsset of RegisterPacket, StartTransport, FinishTransport or
\* LightAlarm that returns errors has written nothing: every account is as
\* it was before the call.
C26_RejectedHasNoEffect ==
    (last.op = "apply" /\ last.tx.type \in TransportTypes /\ last.res = "errors") =>
        accounts = last.pre

C26_Witness ==
    /\ WasApply("RegisterPacket")
    /\ last.res = "errors"
    /\ StatusOf(last.pre) = "pending"
    /\ last.pre["S"].balance >= Units(Prop(last.tx.asset, "postage").num)
    /\ accounts["S"].balance = last.pre["S"].balance

LockedSecurityOf(store) ==
    IF Truthy(Prop(store["C"].asset, "lockedSecurity"))
    THEN Units(Prop(store["C"].asset, "lockedSecurity").num) ELSE 0

PostageOf(tx) == Units(Prop(tx.asset, "postage").num)

\* C28: a successful RegisterPacket moves exactly the postage from the
\* sender's balance to the packet's balance, replaces the packet's asset by
\* the terms of the transaction with status 'pending' and carrier null, and
\* changes nothing else: the sender's asset and every other account stay.
C28_RegisterPacketMovesPostage ==
    (WasApply("RegisterPacket") /\ last.res = "ok") =>
        /\ accounts["S"] = [last.pre["S"] EXCEPT !.balance = @ - PostageOf(last.tx)]
        /\ accounts["P"].balance = last.pre["P"].balance + PostageOf(last.tx)
        /\ accounts["S"].balance + accounts["P"].balance
             = last.pre["S"].balance + last.pre["P"].balance
        /\ accounts["P"].asset =
             Obj([recipient |-> Str(last.tx.recipientId),
                  sender |-> Str(last.tx.senderId),
                  security |-> Prop(last.tx.asset, "security"),
                  postage |-> Prop(last.tx.asset, "postage"),
                  minTrust |-> Prop(last.tx.asset, "minTrust"),
                  status |-> Str("pending"),
                  carrier |-> Null])
        /\ \A a \in DOMAIN accounts \ {"S", "P"} : accounts[a] = last.pre[a]

C28_Witness ==
    /\ WasApply("RegisterPacket")
    /\ last.res = "ok"
    /\ PostageOf(last.tx) = Units(MaxAmount)
    /\ last.pre["P"].balance > 0
    /\ accounts["P"].balance = last.pre["P"].balance + Units(MaxAmount)
    /\ accounts["S"].balance = last.pre["S"].balance - Units(MaxAmount)

\* C29: Cashback.validateAsset returns errors exactly when the asset
\* violates assetFormatSchema, or the type is not 9, or the amount is not a
\* valid transfer amount, or the recipientId is missing or malformed, or the
\* recipientId is not the address of the recipientPublicKey.
C29_CashbackValidateAsset ==
    WasValidate("Cashback") =>
        (call.res.errors # <<>> <=>
            \/ ~ValidateAssetFormat(call.args[2].asset)
            \/ call.args[2].type # ENDORSE_TRANSACTION_TYPE
            \/ ~ValidateTransferAmount(call.args[2].amount)
            \/ call.args[2].recipientId \notin ValidAddresses
            \/ /\ Truthy(call.args[2].recipientPublicKey)
               /\ call.args[2].recipientId
                    # GetAddressFromPublicKey(call.args[2].recipientPublicKey))

\* A balance that is a whole number of smallest units.
WholeUnits(balance) == balance % Scale = 0

\* C30: after Cashback.applyAsset every balance of the store is a whole,
\* non-negative number of smallest units, for odd amounts as for even ones.
C30_CashbackBalancesWhole ==
    (WasApply("Cashback") /\ \A a \in DOMAIN last.pre : WholeUnits(last.pre[a].balance)) =>
        \A a \in DOMAIN accounts :
            accounts[a].balance >= 0 /\ WholeUnits(accounts[a].balance)

WasBatch == call.op \in {"process", "undo"}

\* C24: every address that an applyAsset or undoAsset hands to
\* store.account.get was named by a selector of the prepare of the same
\* transaction; for FinishTransport these are the packet and the carrier and
\* sender that prepare read from the packet.
C24_GetsWerePrepared ==
    WasBatch =>
        \A i \in DOMAIN call.res.reads :
            call.res.reads[i].gets \subseteq call.res.reads[i].cached

C31_HelloValidateAsset ==
    WasValidate("HelloTransaction") =>
        /\ call.res.res # "throw"
        /\ Prop(call.args[2].asset, "hello") = Num(1) => call.res.errors = <<>>
        /\ Prop(call.args[2].asset, "hello") # Num(1) =>
              /\ Len(call.res.errors) = 1
              /\ call.res.errors[1].dataPath = ".asset.hello"

C31_Witness ==
    /\ WasValidate("HelloTransaction")
    /\ Prop(call.args[2].asset, "hello") = Str("1")
    /\ Len(call.res.errors) = 1
    /\ call.res.errors[1].dataPath = ".asset.hello"

WasCall(op) == call.op = op /\ call.res = "ok"

\* C32: once run() has frozen the configuration, a call of registerModule
\* or overrideModuleOptions leaves the configuration of every module as it
\* was, and no call changes the genesis block or the constants.
C32_FrozenConfiguration ==
    (call.op # "none" /\ "config" \in call.pre.frozen) =>
        /\ call.op \in {"registerModule", "overrideModuleOptions"} =>
              app.config.modules = call.pre.config.modules
        /\ app.genesisBlock = call.pre.genesisBlock
        /\ app.constants = call.pre.constants

\* C38: when run() loads the modules, the registeredTransactions option
\* handed to the chain module holds every transaction registered before
\* run(), the five of the constructor and those registered after it.
C38_RegisteredTransactionsAtLoad ==
    WasCall("run") =>
        LET registered == Prop(app.loaded["chain"], "registeredTransactions")
        IN /\ \A type \in 0..TRANSACTION_TYPES.MULTI :
                 Prop(registered, ToString(type)) # Undefined
           /\ \A key \in DOMAIN call.pre.transactions :
                 Prop(registered, key) = Class(call.pre.transactions[key])

C38_Witness ==
    /\ WasCall("run")
    /\ "9" \in DOMAIN call.pre.transactions
    /\ Prop(Prop(app.loaded["chain"], "registeredTransactions"), "9") = Class("Cashback")

\* The hook or call that started the i-th shutdown was a trigger of the
\* claim: everything but the 'exit' hook.
TriggerFired(i) ==
    /\ Len(process.calls) >= i
    /\ process.calls[i].trigger # "exit"
    /\ app.controller # Null

SomeCleanupDone == \E j \in 1..Len(process.calls) : process.calls[j].phase = "exit"

\* C33: after run() every shutdown trigger leads to the exit of the process
\* after a controller.cleanup is done, with the error code the trigger
\* passed to shutdown (1 for the signals and the exceptions).
C33_TriggerLeadsToExit ==
    \A i \in 1..MaxTriggers :
        TriggerFired(i) ~>
            (/\ Exited(process)
             /\ SomeCleanupDone
             /\ Len(process.calls) >= i
             /\ process.exitCode = Num(process.calls[i].errorCode))

\* C39: during one termination controller.cleanup is invoked at most once.
C39_CleanupAtMostOnce == process.cleanups <= 1

WasLog == call.op \in {"trace", "info", "error"}

Written(line, token) == \E i \in 1..Len(line) : line[i] = token

\* C34: no value stored under a key matching passphrase or password, at any
\* nesting depth of the logged data, appears in what is written to the log
\* file or echoed to the console.
C34_NoSecretInLog ==
    WasLog => /\ ~Written(call.res.file, "secret")
              /\ ~Written(call.res.console, "secret")

\* All balances plus the security locked in the carrier's asset.
TotalTokens(store) == SumBalances(store) + LockedSecurityOf(store)

\* The calls so far are RegisterPacket, StartTransport, any number of
\* LightAlarm and FinishTransport 'fail', each applied and none undone.
FailedDelivery ==
    /\ Len(applied) >= 3
    /\ steps = Len(applied)
    /\ applied[1].tx.type = "RegisterPacket"
    /\ applied[2].tx.type = "StartTransport"
    /\ \A i \in 3..(Len(applied) - 1) : applied[i].tx.type = "LightAlarm"
    /\ applied[Len(applied)].tx.type = "FinishTransport"
    /\ Prop(applied[Len(applied)].tx.asset, "status") = Str("fail")

\* C35: over RegisterPacket, StartTransport, LightAlarm* and FinishTransport
\* 'fail', the balances plus the locked security total the same after the
\* last step as before the first, whatever balance the packet held.
C35_FailedDeliveryConservesTokens ==
    FailedDelivery => TotalTokens(accounts) = TotalTokens(applied[1].pre)

\* The store before the oldest transaction that is still applied.
Bottom ==
    IF applied # <<>> THEN applied[1].pre
    ELSE IF last.op = "undo" /\ last.res = "ok" THEN last.orig
    ELSE accounts

\* The number of Hello transactions of a sender applied and not undone.
StillApplied(sender) ==
    Cardinality({i \in 1..Len(applied) : applied[i].tx.senderId = sender})

HelloOf(store, sender) == Prop(store[sender].asset, "hello")

\* C36: for a sender that had no hello counter, after k Hello transactions
\* applied and j of them undone in reverse order the counter is k - j when
\* that is at least 1 and is absent when it is 0; a counter is never 0 or
\* negative.
C36_HelloCounter ==
    \A sender \in HelloSenders :
        /\ HelloOf(Bottom, sender) = Undefined =>
              HelloOf(accounts, sender) =
                 IF StillApplied(sender) >= 1 THEN Num(StillApplied(sender))
                 ELSE Undefined
        /\ HelloOf(accounts, sender) # Undefined => HelloOf(accounts, sender).num >= 1

C36_Witness ==
    /\ WasUndo("Hello")
    /\ last.res = "ok"
    /\ last.run = 1
    /\ steps = 3
    /\ HelloOf(Bottom, "S") = Undefined
    /\ StillApplied("S") = 1
    /\ HelloOf(last.pre, "S") = Num(2)
    /\ HelloOf(accounts, "S") = Num(1)

\* C37: Hello applyAsset and undoAsset change nothing but the hello counter
\* of the sender: its balance, the other keys of its asset map and every
\* other account are as before.
C37_HelloChangesOnlyCounter ==
    ((WasApply("Hello") \/ WasUndo("Hello")) /\ last.res = "ok") =>
        LET sender == last.tx.senderId
        IN /\ accounts[sender].balance = last.pre[sender].balance
           /\ \A key \in {"trust"} :
                 Prop(accounts[sender].asset, key) = Prop(last.pre[sender].asset, key)
           /\ \A other \in DOMAIN accounts \ {sender} :
                 accounts[other] = last.pre[other]

====
